---- MODULE Spec2Model ----
(***************************************************************************)
(* Verification model of the signed-repository commands of rookpkg         *)
(* (cli/repo.rs): init, refresh, sign, and the signature key resolver;     *)
(* and of the Arch Linux converter (convert/arch.rs, convert/pkgbuild.rs,  *)
(* cli/convert.rs): the name tables, the dependency codec, the recipe      *)
(* parser, variable expansion, the emitter and the conversion drivers.     *)
(*                                                                         *)
(* The repository directory is the state: repo.toml, packages.json,        *)
(* packages.json.sig, groups.toml, deltas.json and the entries of          *)
(* packages/.  A command is a sequence of steps, one for each file it      *)
(* writes, so the states a crash or an I/O error can leave behind between  *)
(* two writes are states of the model.                                     *)
(***************************************************************************)
EXTENDS Naturals, Sequences, FiniteSets, TLC

(***************************************************************************)
(* Bounds of the model.                                                    *)
(***************************************************************************)
\* most entries of packages/ at any time
MaxFiles == 3
\* most key files in one key directory
MaxKeyFiles == 1

(***************************************************************************)
(* Strings that the code inspects character by character are sequences of  *)
(* one-character strings.                                                  *)
(***************************************************************************)
\* str::ends_with: t is a suffix of s
ends_with(s, t) ==
    /\ Len(t) <= Len(s)
    /\ SubSeq(s, Len(s) - Len(t) + 1, Len(s)) = t

(***************************************************************************)
(* Public keys and key stores.                                             *)
(***************************************************************************)
\* fingerprints in long and short forms: a < ba < cba by suffix, ab apart
Fingerprints == { <<"a">>, <<"b", "a">>, <<"c", "b", "a">>, <<"a", "b">> }

\* signing::LoadedPublicKey, identified by its fingerprint
PublicKey(fp) == [fingerprint |-> fp]
NoKey == [fingerprint |-> <<>>]

\* a file of a key directory: its extension, whether load_public_key
\* succeeds on it, and the key it holds
KeyFile(ext, loadable, fp) == [ext |-> ext, loadable |-> loadable, key |-> PublicKey(fp)]
KeyFiles ==
    { KeyFile("pub", TRUE, fp) : fp \in Fingerprints }
      \cup { KeyFile("pub", FALSE, <<>>) }
      \cup { KeyFile("txt", TRUE, fp) : fp \in { <<"a">>, <<"b", "a">> } }

\* a key directory: missing, present but not enumerable (read_dir fails),
\* or a list of files in read_dir order
KeyDir(exists, readable, entries) ==
    [exists |-> exists, readable |-> readable, entries |-> entries]
SeqsUpTo(S, n) == UNION { [1..k -> S] : k \in 0..n }
KeyDirs ==
    { KeyDir(FALSE, FALSE, <<>>), KeyDir(TRUE, FALSE, <<>>) }
      \cup { KeyDir(TRUE, TRUE, es) : es \in SeqsUpTo(KeyFiles, MaxKeyFiles) }

\* a single key file location (signing-key.pub): missing, unloadable, or a key
KeySlot(exists, loadable, fp) ==
    [exists |-> exists, loadable |-> loadable, key |-> PublicKey(fp)]
KeySlots ==
    { KeySlot(FALSE, FALSE, <<>>), KeySlot(TRUE, FALSE, <<>>) }
      \cup { KeySlot(TRUE, TRUE, fp) : fp \in Fingerprints }

\* the key locations of Config and of the environment
KeyStores ==
    [ master_keys_dir : KeyDirs, packager_keys_dir : KeyDirs,
      user_key : KeySlots, root_key : KeySlots ]

\* results of a lookup
Found(k) == [status |-> "Ok", key |-> k]
Failed(e) == [status |-> e, key |-> NoKey]
NotFoundInDir == Failed("None")

\* the match test written out at each of the three places of the resolver
FingerprintMatches_NoReverse(key_fp, fingerprint) ==
    \/ key_fp = fingerprint
    \/ ends_with(key_fp, fingerprint)

FingerprintMatches(key_fp, fingerprint) ==
    \/ key_fp = fingerprint
    \/ ends_with(key_fp, fingerprint)
    \/ ends_with(fingerprint, key_fp)

\* the loop of search_key_in_dir over the entries from position i on
RECURSIVE search_entries(_, _, _)
search_entries(entries, i, fingerprint) ==
    IF i > Len(entries) THEN NotFoundInDir
    ELSE LET e == entries[i] IN
         IF /\ e.ext = "pub"
            /\ e.loadable
            /\ FingerprintMatches(e.key.fingerprint, fingerprint)
         THEN Found(e.key)
         ELSE search_entries(entries, i + 1, fingerprint)

search_key_in_dir(dir, fingerprint) ==
    IF ~dir.exists THEN NotFoundInDir
    ELSE IF ~dir.readable THEN Failed("Io")
    ELSE search_entries(dir.entries, 1, fingerprint)

\* the test of one signing-key.pub location
slot_matches(slot, fingerprint) ==
    /\ slot.exists
    /\ slot.loadable
    /\ FingerprintMatches(slot.key.fingerprint, fingerprint)

find_signing_key_PackagerFirst(fingerprint, store) ==
    LET p == search_key_in_dir(store.packager_keys_dir, fingerprint)
        m == search_key_in_dir(store.master_keys_dir, fingerprint)
    IN  IF p.status = "Ok" THEN p
        ELSE IF p.status = "Io" THEN p
        ELSE IF m.status = "Ok" THEN m
        ELSE IF m.status = "Io" THEN m
        ELSE IF slot_matches(store.user_key, fingerprint) THEN Found(store.user_key.key)
        ELSE IF slot_matches(store.root_key, fingerprint) THEN Found(store.root_key.key)
        ELSE Failed("KeyNotFound")

find_signing_key(fingerprint, store) ==
    LET m == search_key_in_dir(store.master_keys_dir, fingerprint)
        p == search_key_in_dir(store.packager_keys_dir, fingerprint)
    IN  IF m.status = "Ok" THEN m
        ELSE IF m.status = "Io" THEN m
        ELSE IF p.status = "Ok" THEN p
        ELSE IF p.status = "Io" THEN p
        ELSE IF slot_matches(store.user_key, fingerprint) THEN Found(store.user_key.key)
        ELSE IF slot_matches(store.root_key, fingerprint) THEN Found(store.root_key.key)
        ELSE Failed("KeyNotFound")


(***************************************************************************)
(* Signatures.  signing::sign_file and signing::verify_signature are black *)
(* boxes: a signature names the key that made it and the bytes it covers,  *)
(* and verifies under exactly that key over exactly those bytes.           *)
(***************************************************************************)
\* signing::HybridSignature: `fingerprint` is the field the verifier reads,
\* `signer` the key that made the signature, `over` the signed content
HybridSignature(fp, signer, over) == [fingerprint |-> fp, signer |-> signer, over |-> over]

\* the key signing::load_signing_key yields when one is configured
SigningKeyFp == <<"c", "b", "a">>

sign_file(key_fp, content) == HybridSignature(key_fp, key_fp, content)

verify_signature(public_key, content, signature) ==
    /\ signature.signer = public_key.fingerprint
    /\ signature.over = content

(***************************************************************************)
(* The package index (crate::repository).                                  *)
(***************************************************************************)
NoDelta == [present |-> FALSE, id |-> ""]

PackageIndex_new(name) ==
    [ repository_name |-> name, count |-> 0, packages |-> <<>>,
      groups |-> <<>>, delta_index |-> NoDelta ]

add_package(index, entry) ==
    [ index EXCEPT !.packages = Append(@, entry), !.count = @ + 1 ]

add_group(index, group) == [ index EXCEPT !.groups = Append(@, group) ]

set_delta_index(index, delta) == [ index EXCEPT !.delta_index = delta ]

(***************************************************************************)
(* Files of packages/.  A file is a name, split at its dots, and its       *)
(* bytes; the bytes are drawn from a few samples.                          *)
(***************************************************************************)
\* Path::extension
extension(name) == IF Len(name) >= 2 THEN name[Len(name)] ELSE ""

\* Path::with_extension("rookpkg.sig")
with_extension_sig(name) ==
    (IF Len(name) >= 2 THEN SubSeq(name, 1, Len(name) - 1) ELSE name) \o <<"rookpkg", "sig">>

ArchiveA == <<"a", "rookpkg">>
ArchiveB == <<"b", "rookpkg">>
SigA == <<"a", "rookpkg", "sig">>
Notes == <<"notes", "txt">>
FileNames == { ArchiveA, ArchiveB, SigA, Notes }

\* the bytes each name is given in the runs explored
AllowedBytes(name) ==
    CASE name = ArchiveA -> { "A", "junk" }
      [] name = ArchiveB -> { "B" }
      [] name = SigA -> { "sigA", "sigA_unknown", "sigB", "junk" }
      [] OTHER -> { "B" }

\* PackageArchiveReader::open + read_info: the archive's PackageInfo, whose
\* depends and build_depends are mappings (only their key sets matter here)
read_info(bytes) ==
    CASE bytes = "A" -> [ ok |-> TRUE, name |-> "a", version |-> "1",
                          depends |-> { "x", "y" }, build_depends |-> { "m" } ]
      [] bytes = "B" -> [ ok |-> TRUE, name |-> "b", version |-> "2",
                          depends |-> {}, build_depends |-> {} ]
      [] OTHER -> [ ok |-> FALSE, name |-> "", version |-> "",
                    depends |-> {}, build_depends |-> {} ]

\* serde_json::from_str::<HybridSignature> on the bytes of a .sig file
parse_signature(bytes) ==
    CASE bytes = "sigA" ->
           [ ok |-> TRUE, sig |-> HybridSignature(<<"b", "a">>, SigningKeyFp, "A") ]
      [] bytes = "sigA_unknown" ->
           [ ok |-> TRUE, sig |-> HybridSignature(<<"a", "b">>, <<"a", "b">>, "A") ]
      [] bytes = "sigB" ->
           [ ok |-> TRUE, sig |-> HybridSignature(SigningKeyFp, SigningKeyFp, "B") ]
      [] OTHER ->
           [ ok |-> FALSE, sig |-> HybridSignature(<<>>, <<>>, "") ]

\* the key locations of the runs explored: the signing key's public half
\* sits in the master-keys directory
RepoKeyStore ==
    [ master_keys_dir |-> KeyDir(TRUE, TRUE, << KeyFile("pub", TRUE, SigningKeyFp) >>),
      packager_keys_dir |-> KeyDir(FALSE, FALSE, <<>>),
      user_key |-> KeySlot(FALSE, FALSE, <<>>),
      root_key |-> KeySlot(FALSE, FALSE, <<>>) ]


(***************************************************************************)
(* groups.toml and deltas.json.                                            *)
(***************************************************************************)
\* one [groups.<name>] table of groups.toml
GroupDef(name, description, packages, optional, essential) ==
    [ name |-> name, description |-> description, packages |-> packages,
      optional |-> optional, essential |-> essential ]

\* the groups that the groups.toml of the runs explored defines; "zz" names
\* no archive
SampleGroups ==
    { GroupDef("base", "core set", <<"a", "zz">>, <<>>, TRUE),
      GroupDef("devel", "tools", <<"b">>, <<"a">>, FALSE) }

\* a file that may be missing or fail to parse
TextFile(exists, wellFormed, content) ==
    [ exists |-> exists, wellFormed |-> wellFormed, content |-> content ]

GroupsFiles ==
    { TextFile(FALSE, FALSE, {}), TextFile(TRUE, FALSE, {}), TextFile(TRUE, TRUE, SampleGroups) }

SampleDelta == [present |-> TRUE, id |-> "deltas-1"]
DeltaFiles ==
    { TextFile(FALSE, FALSE, NoDelta), TextFile(TRUE, FALSE, NoDelta),
      TextFile(TRUE, TRUE, SampleDelta) }

\* a group without its optional members
PackageGroup_NoOptional(def) ==
    [ name |-> def.name, description |-> def.description, packages |-> def.packages,
      optional |-> <<>>, essential |-> def.essential ]
\* PackageGroup::new followed by add_package / add_optional per member
PackageGroup(def) ==
    [ name |-> def.name, description |-> def.description, packages |-> def.packages,
      optional |-> def.optional, essential |-> def.essential ]

\* the orders in which a HashMap may yield the elements of S
IterationOrders(S) ==
    { s \in [1..Cardinality(S) -> S] : \A i, j \in 1..Cardinality(S) : s[i] = s[j] => i = j }

(***************************************************************************)
(* State.                                                                  *)
(***************************************************************************)
VARIABLES
    pc,               \* where the running command stands; "idle" between commands
    args,             \* the running command's arguments (init's --name)
    keyAvailable,     \* whether signing::load_signing_key succeeds
    pathExists,       \* <path>/ exists
    packagesDirExists,\* <path>/packages/ exists
    pkgDir,           \* the entries of packages/ in read_dir order
    repoToml,         \* repo.toml
    packagesJson,     \* packages.json
    packagesJsonSig,  \* packages.json.sig
    groupsToml,       \* groups.toml
    deltasJson,       \* deltas.json
    result,           \* what the last step returned and reported, if it ran a command
    query,            \* key resolver: the store and fingerprint of a lookup
    found,            \* key resolver: the outcome of the lookup
    input,            \* converter functions: the argument of the function under study
    output,           \* converter functions: what the function returned
    convPc,           \* converter drivers: "idle", or "convert_all" inside the bulk loop
    packages,         \* convert_all: the package listing it iterates
    cursor,           \* convert_all: how many listed packages the loop has visited
    stats,            \* convert_all: its ConversionStats
    fetched,          \* the PKGBUILD requests sent so far, in order
    rookFiles,        \* the .rook files written so far
    convResult,       \* what the last converter call returned
    repo,             \* fetch_package_list: the repository being listed, 0 outside the loop
    page,             \* fetch_package_list: the page to request next
    content,          \* recipe parser: the lines of the text not read yet
    in_array,         \* extract_variables: inside an array assignment
    current_var,      \* extract_variables: the array variable being collected
    current_array,    \* extract_variables: its elements so far
    raw_variables     \* Pkgbuild::raw_variables

vars == << pc, args, keyAvailable, pathExists, packagesDirExists, pkgDir, repoToml,
           packagesJson, packagesJsonSig, groupsToml, deltasJson, result, query, found,
           input, output, convPc, packages, cursor, stats, fetched, rookFiles, convResult,
           repo, page,
           content, in_array, current_var, current_array, raw_variables >>

repoVars == << pc, args, keyAvailable, pathExists, packagesDirExists, pkgDir, repoToml,
               packagesJson, packagesJsonSig, groupsToml, deltasJson, result >>

fnVars == << input, output >>
listVars == << repo, page >>
driverVars == << convPc, packages, cursor, stats, fetched, rookFiles, convResult, listVars >>
parserVars == << content, in_array, current_var, current_array, raw_variables >>
convVars == << fnVars, driverVars, parserVars >>

\* ConversionStats with every counter at zero
ConversionStats_new(total) ==
    [ total |-> total, converted |-> 0, skipped |-> 0, failed |-> 0,
      failed_packages |-> << >> ]

\* the outcome of a converter call on a package name
ConvOutcome(call, status, name) == [ call |-> call, status |-> status, name |-> name ]
NoConvOutcome == ConvOutcome("", "", << >>)

\* no converter function has been applied
NoInput == << >>
NoOutput == << >>

\* no conversion driver has run
DriverIdle ==
    /\ convPc = "idle"
    /\ packages = << >>
    /\ cursor = 0
    /\ stats = ConversionStats_new(0)
    /\ fetched = << >>
    /\ rookFiles = {}
    /\ convResult = NoConvOutcome
    /\ repo = 0
    /\ page = 1

\* no recipe is being parsed
NoVariables == [ v \in {} |-> << >> ]
ParserIdle ==
    /\ content = << >>
    /\ in_array = FALSE
    /\ current_var = ""
    /\ current_array = << >>
    /\ raw_variables = NoVariables

\* the converter is not in use
ConverterIdle ==
    /\ input = NoInput
    /\ output = NoOutput
    /\ DriverIdle
    /\ ParserIdle

RepoNames == { "core", "extra" }

NoMetadata == [ exists |-> FALSE, name |-> "", fingerprint |-> <<>> ]
NoIndexFile == [ exists |-> FALSE, index |-> PackageIndex_new("") ]
NoSigFile == [ exists |-> FALSE, sig |-> HybridSignature(<<>>, <<>>, PackageIndex_new("")) ]

\* the outcome of a command: its status and, for refresh, the four counters
\* of its signature summary
Outcome(cmd, status, scanned, signed, unsigned, invalid_sig) ==
    [ cmd |-> cmd, status |-> status, scanned |-> scanned, signed |-> signed,
      unsigned |-> unsigned, invalid_sig |-> invalid_sig ]
Status(cmd, status) == Outcome(cmd, status, 0, 0, 0, 0)
NoOutcome == Status("", "")

NoQuery == [ store |-> RepoKeyStore, fingerprint |-> <<>> ]

\* a fresh path: nothing exists
RepoInit ==
    /\ pc = "idle"
    /\ args = ""
    /\ keyAvailable \in BOOLEAN
    /\ pathExists = FALSE
    /\ packagesDirExists = FALSE
    /\ pkgDir = <<>>
    /\ repoToml = NoMetadata
    /\ packagesJson = NoIndexFile
    /\ packagesJsonSig = NoSigFile
    /\ groupsToml = TextFile(FALSE, FALSE, {})
    /\ deltasJson = TextFile(FALSE, FALSE, NoDelta)
    /\ result = NoOutcome


(***************************************************************************)
(* refresh: scanning packages/.                                            *)
(***************************************************************************)
File(name, bytes) == [ name |-> name, bytes |-> bytes ]
HasFile(dir, name) == \E i \in 1..Len(dir) : dir[i].name = name
BytesOf(dir, name) == (CHOOSE f \in { dir[i] : i \in 1..Len(dir) } : f.name = name).bytes
NamesIn(dir) == { dir[i].name : i \in 1..Len(dir) }

\* the filter of the scan loop: only .rookpkg files are processed
is_rookpkg(name) == extension(name) = "rookpkg"

\* the status verify_package_signature returns
verify_package_signature(pkg_bytes, sig_bytes, store) ==
    LET parsed == parse_signature(sig_bytes)
        key == find_signing_key(parsed.sig.fingerprint, store)
    IN  IF ~parsed.ok THEN "ParseFailed"
        ELSE IF key.status # "Ok" THEN key.status
        ELSE IF ~verify_signature(key.key, pkg_bytes, parsed.sig) THEN "VerifyFailed"
        ELSE "Ok"

\* the classification of one archive by its sibling .rookpkg.sig
signature_status(dir, file, store) ==
    LET sig_path == with_extension_sig(file.name)
    IN  IF ~HasFile(dir, sig_path) THEN "unsigned"
        ELSE IF verify_package_signature(file.bytes, BytesOf(dir, sig_path), store) = "Ok"
             THEN "signed"
             ELSE "invalid"

\* the entries scan_package may build for a readable archive: one for each
\* order in which the two dependency maps yield their keys
scan_package(file) ==
    LET info == read_info(file.bytes)
    IN  { [ name |-> info.name, version |-> info.version,
            filename |-> <<"packages">> \o file.name, sha256 |-> file.bytes,
            depends |-> d, build_depends |-> bd ] :
          d \in IterationOrders(info.depends), bd \in IterationOrders(info.build_depends) }

\* the locals of the scan loop
ScanState(index, scanned, signed, unsigned, invalid_sig, failed) ==
    [ index |-> index, scanned |-> scanned, signed |-> signed, unsigned |-> unsigned,
      invalid_sig |-> invalid_sig, failed |-> failed ]

\* record_package pushing onto the packages list without add_package
record_package_RawPush(st, entry, sig_status) ==
    [ st EXCEPT !.scanned = @ + 1,
                !.signed = IF sig_status = "signed" THEN @ + 1 ELSE @,
                !.unsigned = IF sig_status = "unsigned" THEN @ + 1 ELSE @,
                !.invalid_sig = IF sig_status = "invalid" THEN @ + 1 ELSE @,
                !.index.packages = Append(@, entry) ]

\* record_package leaving an archive with an invalid signature out
record_package_DropInvalid(st, entry, sig_status) ==
    [ st EXCEPT !.scanned = @ + 1,
                !.signed = IF sig_status = "signed" THEN @ + 1 ELSE @,
                !.unsigned = IF sig_status = "unsigned" THEN @ + 1 ELSE @,
                !.invalid_sig = IF sig_status = "invalid" THEN @ + 1 ELSE @,
                !.index = IF sig_status = "invalid" THEN @ ELSE add_package(@, entry) ]

\* the Some(pkg_entry) arm: count the signature status, add the entry
record_package(st, entry, sig_status) ==
    [ st EXCEPT !.scanned = @ + 1,
                !.signed = IF sig_status = "signed" THEN @ + 1 ELSE @,
                !.unsigned = IF sig_status = "unsigned" THEN @ + 1 ELSE @,
                !.invalid_sig = IF sig_status = "invalid" THEN @ + 1 ELSE @,
                !.index = add_package(@, entry) ]

\* refresh_start continuing from the index on disk
refresh_start_FromDisk(name) ==
    ScanState(IF packagesJson.exists THEN packagesJson.index ELSE PackageIndex_new(name),
              0, 0, 0, 0, FALSE)

\* the index a refresh starts from
refresh_start(name) == ScanState(PackageIndex_new(name), 0, 0, 0, 0, FALSE)

\* the scan loop from entry i on: the states it may end in
RECURSIVE scan_dir(_, _, _, _)
scan_dir(dir, i, st, store) ==
    IF i > Len(dir) THEN { st }
    ELSE LET f == dir[i] IN
         IF ~is_rookpkg(f.name) THEN scan_dir(dir, i + 1, st, store)
         ELSE IF ~read_info(f.bytes).ok THEN { [ st EXCEPT !.failed = TRUE ] }
         ELSE UNION { scan_dir(dir, i + 1,
                               record_package(st, e, signature_status(dir, f, store)), store) :
                      e \in scan_package(f) }

\* the loop over groups_file.groups in the order `defs`
RECURSIVE attach_groups(_, _, _)
attach_groups(index, defs, i) ==
    IF i > Len(defs) THEN index
    ELSE attach_groups(add_group(index, PackageGroup(defs[i])), defs, i + 1)

\* the indexes the groups step may produce
with_groups(index, groups_file) ==
    IF ~groups_file.exists THEN { index }
    ELSE { attach_groups(index, defs, 1) : defs \in IterationOrders(groups_file.content) }

\* the index after the deltas step
with_deltas(index, deltas_file) ==
    IF ~deltas_file.exists THEN index ELSE set_delta_index(index, deltas_file.content)

\* what refresh computes before it writes: a failure, or an index to write
Computed(status, st) ==
    [ status |-> status, index |-> st.index, scanned |-> st.scanned, signed |-> st.signed,
      unsigned |-> st.unsigned, invalid_sig |-> st.invalid_sig ]

refresh_compute ==
    LET none == refresh_start("") IN
    IF ~keyAvailable THEN { Computed("MissingKey", none) }
    ELSE IF ~repoToml.exists THEN { Computed("NotARepository", none) }
    ELSE IF ~packagesDirExists THEN { Computed("NoPackagesDir", none) }
    ELSE UNION {
           IF st.failed THEN { Computed("ArchiveError", none) }
           ELSE IF groupsToml.exists /\ ~groupsToml.wellFormed
                THEN { Computed("MalformedGroups", none) }
           ELSE IF deltasJson.exists /\ ~deltasJson.wellFormed
                THEN { Computed("MalformedDeltas", none) }
           ELSE { Computed("Ok", [ st EXCEPT !.index = with_deltas(g, deltasJson) ]) :
                  g \in with_groups(st.index, groupsToml) } :
           st \in scan_dir(pkgDir, 1, refresh_start(repoToml.name), RepoKeyStore) }


(***************************************************************************)
(* The commands.  A command runs from pc = "idle" back to pc = "idle";     *)
(* each of its file writes is a step.                                      *)
(***************************************************************************)
Finish(cmd, status) ==
    /\ pc' = "idle"
    /\ args' = ""
    /\ result' = Status(cmd, status)

\* init up to and including the write of repo.toml
InitBegin(name) ==
    /\ pc = "idle"
    /\ IF ~keyAvailable
       THEN /\ Finish("init", "MissingKey")
            /\ UNCHANGED << pathExists, packagesDirExists, pkgDir, repoToml >>
       ELSE \* create_dir_all(path), create_dir_all(path/packages)
            /\ pathExists' = TRUE
            /\ packagesDirExists' = TRUE
            /\ pkgDir' = pkgDir
            /\ IF repoToml.exists
               THEN /\ Finish("init", "AlreadyExists")
                    /\ UNCHANGED repoToml
               ELSE /\ repoToml' = [ exists |-> TRUE, name |-> name,
                                     fingerprint |-> SigningKeyFp ]
                    /\ pc' = "init_toml"
                    /\ args' = name
                    /\ result' = Status("init", "running")
    /\ UNCHANGED << keyAvailable, packagesJson, packagesJsonSig, groupsToml, deltasJson >>

\* InitWriteIndex writing an index that does not carry the repository name
InitWriteIndex_Unnamed ==
    /\ pc = "init_toml"
    /\ packagesJson' = [ exists |-> TRUE, index |-> PackageIndex_new("") ]
    /\ pc' = "init_index"
    /\ UNCHANGED << args, keyAvailable, pathExists, packagesDirExists, pkgDir, repoToml,
                    packagesJsonSig, groupsToml, deltasJson, result >>

\* init: write the empty index
InitWriteIndex ==
    /\ pc = "init_toml"
    /\ packagesJson' = [ exists |-> TRUE, index |-> PackageIndex_new(args) ]
    /\ pc' = "init_index"
    /\ UNCHANGED << args, keyAvailable, pathExists, packagesDirExists, pkgDir, repoToml,
                    packagesJsonSig, groupsToml, deltasJson, result >>

\* init: sign packages.json as it is on disk and write the signature
InitWriteSig ==
    /\ pc = "init_index"
    /\ packagesJsonSig' = [ exists |-> TRUE, sig |-> sign_file(SigningKeyFp, packagesJson.index) ]
    /\ Finish("init", "Ok")
    /\ UNCHANGED << keyAvailable, pathExists, packagesDirExists, pkgDir, repoToml,
                    packagesJson, groupsToml, deltasJson >>

\* refresh truncating packages.json before it checks anything
RefreshBegin_WritesOnFailure ==
    /\ pc = "idle"
    /\ \E c \in refresh_compute :
         IF c.status = "Ok"
         THEN /\ packagesJson' = [ exists |-> TRUE, index |-> c.index ]
              /\ pc' = "refresh_index"
              /\ args' = ""
              /\ result' = Outcome("refresh", "running", c.scanned, c.signed,
                                   c.unsigned, c.invalid_sig)
         ELSE /\ Finish("refresh", c.status)
              /\ packagesJson' = [ exists |-> TRUE, index |-> PackageIndex_new("") ]
    /\ UNCHANGED << keyAvailable, pathExists, packagesDirExists, pkgDir, repoToml,
                    packagesJsonSig, groupsToml, deltasJson >>
\* refresh up to and including the write of packages.json
RefreshBegin ==
    /\ pc = "idle"
    /\ \E c \in refresh_compute :
         IF c.status = "Ok"
         THEN /\ packagesJson' = [ exists |-> TRUE, index |-> c.index ]
              /\ pc' = "refresh_index"
              /\ args' = ""
              /\ result' = Outcome("refresh", "running", c.scanned, c.signed,
                                   c.unsigned, c.invalid_sig)
         ELSE /\ Finish("refresh", c.status)
              /\ UNCHANGED packagesJson
    /\ UNCHANGED << keyAvailable, pathExists, packagesDirExists, pkgDir, repoToml,
                    packagesJsonSig, groupsToml, deltasJson >>

\* RefreshWriteSig reporting success without writing the signature
RefreshWriteSig_NoWrite ==
    /\ pc = "refresh_index"
    /\ pc' = "idle"
    /\ args' = ""
    /\ result' = [ result EXCEPT !.status = "Ok" ]
    /\ UNCHANGED << keyAvailable, pathExists, packagesDirExists, pkgDir, repoToml,
                    packagesJson, packagesJsonSig, groupsToml, deltasJson >>

\* refresh: sign packages.json as it is on disk and write the signature
RefreshWriteSig ==
    /\ pc = "refresh_index"
    /\ packagesJsonSig' = [ exists |-> TRUE, sig |-> sign_file(SigningKeyFp, packagesJson.index) ]
    /\ pc' = "idle"
    /\ args' = ""
    /\ result' = [ result EXCEPT !.status = "Ok" ]
    /\ UNCHANGED << keyAvailable, pathExists, packagesDirExists, pkgDir, repoToml,
                    packagesJson, groupsToml, deltasJson >>

\* a running command ends between two writes: the process is killed, or
\* the next write or sign_file returns an error
Abort ==
    /\ pc # "idle"
    /\ pc' = "idle"
    /\ args' = ""
    /\ result' = [ result EXCEPT !.status = "Io" ]
    /\ UNCHANGED << keyAvailable, pathExists, packagesDirExists, pkgDir, repoToml,
                    packagesJson, packagesJsonSig, groupsToml, deltasJson >>

\* Sign without the check that packages.json exists
Sign_NoIndexCheck(io_ok) ==
    /\ pc = "idle"
    /\ IF ~keyAvailable
       THEN /\ Finish("sign", "MissingKey")
            /\ UNCHANGED packagesJsonSig
       ELSE IF ~io_ok
       THEN /\ Finish("sign", "Io")
            /\ UNCHANGED packagesJsonSig
       ELSE /\ packagesJsonSig' =
                 [ exists |-> TRUE, sig |-> sign_file(SigningKeyFp, packagesJson.index) ]
            /\ Finish("sign", "Ok")
    /\ UNCHANGED << keyAvailable, pathExists, packagesDirExists, pkgDir, repoToml,
                    packagesJson, groupsToml, deltasJson >>

\* sign; `io_ok` is whether sign_file and the write succeed
Sign(io_ok) ==
    /\ pc = "idle"
    /\ IF ~keyAvailable
       THEN /\ Finish("sign", "MissingKey")
            /\ UNCHANGED packagesJsonSig
       ELSE IF ~packagesJson.exists
       THEN /\ Finish("sign", "IndexNotFound")
            /\ UNCHANGED packagesJsonSig
       ELSE IF ~io_ok
       THEN /\ Finish("sign", "Io")
            /\ UNCHANGED packagesJsonSig
       ELSE /\ packagesJsonSig' =
                 [ exists |-> TRUE, sig |-> sign_file(SigningKeyFp, packagesJson.index) ]
            /\ Finish("sign", "Ok")
    /\ UNCHANGED << keyAvailable, pathExists, packagesDirExists, pkgDir, repoToml,
                    packagesJson, groupsToml, deltasJson >>

(***************************************************************************)
(* The environment: what happens to the directory between commands.        *)
(***************************************************************************)
EnvStep ==
    /\ pc = "idle"
    /\ pc' = "idle"
    /\ args' = ""
    /\ result' = NoOutcome

AddFile(name, bytes) ==
    /\ EnvStep
    /\ packagesDirExists
    /\ Len(pkgDir) < MaxFiles
    /\ name \notin NamesIn(pkgDir)
    /\ pkgDir' = Append(pkgDir, File(name, bytes))
    /\ UNCHANGED << keyAvailable, pathExists, packagesDirExists, repoToml, packagesJson,
                    packagesJsonSig, groupsToml, deltasJson >>

RemoveFile(i) ==
    /\ EnvStep
    /\ i \in 1..Len(pkgDir)
    /\ pkgDir' = SubSeq(pkgDir, 1, i - 1) \o SubSeq(pkgDir, i + 1, Len(pkgDir))
    /\ UNCHANGED << keyAvailable, pathExists, packagesDirExists, repoToml, packagesJson,
                    packagesJsonSig, groupsToml, deltasJson >>

RemovePackagesDir ==
    /\ EnvStep
    /\ packagesDirExists
    /\ packagesDirExists' = FALSE
    /\ pkgDir' = <<>>
    /\ UNCHANGED << keyAvailable, pathExists, repoToml, packagesJson, packagesJsonSig,
                    groupsToml, deltasJson >>

WriteGroups(g) ==
    /\ EnvStep
    /\ pathExists
    /\ g # groupsToml
    /\ groupsToml' = g
    /\ UNCHANGED << keyAvailable, pathExists, packagesDirExists, pkgDir, repoToml,
                    packagesJson, packagesJsonSig, deltasJson >>

WriteDeltas(d) ==
    /\ EnvStep
    /\ pathExists
    /\ d # deltasJson
    /\ deltasJson' = d
    /\ UNCHANGED << keyAvailable, pathExists, packagesDirExists, pkgDir, repoToml,
                    packagesJson, packagesJsonSig, groupsToml >>

SetKey ==
    /\ EnvStep
    /\ keyAvailable' = ~keyAvailable
    /\ UNCHANGED << pathExists, packagesDirExists, pkgDir, repoToml, packagesJson,
                    packagesJsonSig, groupsToml, deltasJson >>

(***************************************************************************)
(* The repository specification.                                           *)
(***************************************************************************)
Init ==
    /\ RepoInit
    /\ query = NoQuery
    /\ found = Failed("")
    /\ ConverterIdle

\* the steps of the three commands, init being given one of `names`
Command(names) ==
    \/ \E name \in names : InitBegin(name)
    \/ InitWriteIndex
    \/ InitWriteSig
    \/ RefreshBegin
    \/ RefreshWriteSig
    \/ Abort
    \/ \E io_ok \in BOOLEAN : Sign(io_ok)

\* the environment adds and removes files of packages/ and the signing key
Next ==
    \/ Command(RepoNames) /\ UNCHANGED << query, found, convVars >>
    \/ \E name \in FileNames : \E bytes \in AllowedBytes(name) :
         AddFile(name, bytes) /\ UNCHANGED << query, found, convVars >>
    \/ \E i \in 1..MaxFiles : RemoveFile(i) /\ UNCHANGED << query, found, convVars >>
    \/ RemovePackagesDir /\ UNCHANGED << query, found, convVars >>
    \/ SetKey /\ UNCHANGED << query, found, convVars >>

Spec == Init /\ [][Next]_vars

(***************************************************************************)
(* The repository with groups.toml and deltas.json: the environment adds   *)
(* and removes the two archives and rewrites the two metadata files.       *)
(***************************************************************************)
MetaInit ==
    /\ Init
    /\ keyAvailable

MetaNext ==
    \/ Command({ "core" }) /\ UNCHANGED << query, found, convVars >>
    \/ \E bytes \in AllowedBytes(ArchiveB) :
         AddFile(ArchiveB, bytes) /\ UNCHANGED << query, found, convVars >>
    \/ \E i \in 1..MaxFiles : RemoveFile(i) /\ UNCHANGED << query, found, convVars >>
    \/ \E g \in GroupsFiles : WriteGroups(g) /\ UNCHANGED << query, found, convVars >>
    \/ \E d \in DeltaFiles : WriteDeltas(d) /\ UNCHANGED << query, found, convVars >>

SpecMeta == MetaInit /\ [][MetaNext]_vars

(***************************************************************************)
(* The key-resolver specification: one lookup of a fingerprint in a key    *)
(* store, both drawn from the samples above.                               *)
(***************************************************************************)
KeysInit ==
    /\ RepoInit
    /\ keyAvailable
    /\ query \in [ store : KeyStores, fingerprint : Fingerprints ]
    /\ found = Failed("pending")
    /\ ConverterIdle

Lookup ==
    /\ found.status = "pending"
    /\ found' = find_signing_key(query.fingerprint, query.store)
    /\ UNCHANGED << repoVars, query, convVars >>

KeysNext == Lookup

SpecKeys == KeysInit /\ [][KeysNext]_vars


(***************************************************************************)
(* Properties of the repository commands.                                  *)
(***************************************************************************)
\* the step of refresh that writes packages.json
RefreshWrites == pc = "idle" /\ pc' = "refresh_index"

\* the step that completes a refresh successfully
RefreshCompletes == pc = "refresh_index" /\ pc' = "idle" /\ result'.status = "Ok"

\* packages.json.sig is a signature of the packages.json on disk
SigCovers ==
    /\ packagesJson.exists
    /\ packagesJsonSig.exists
    /\ packagesJsonSig.sig.over = packagesJson.index

\* the .rookpkg files among the names explored
Archives == { ArchiveA, ArchiveB }

\* the entry a listed archive must have, whatever the order of its lists
IsEntryOf(e, f) ==
    /\ e.filename = <<"packages">> \o f.name
    /\ e.sha256 = f.bytes
    /\ e.name = (IF f.bytes = "A" THEN "a" ELSE "b")

\* the packages of `index` are, in directory order, one entry for each
\* .rookpkg file of `dir` and nothing else
ListsExactly(index, dir) ==
    LET listed == SelectSeq(dir, LAMBDA f : f.name \in Archives)
    IN  /\ Len(index.packages) = Len(listed)
        /\ \A i \in 1..Len(listed) : IsEntryOf(index.packages[i], listed[i])

\* C1: every refresh that writes packages.json writes the entries of the
\* .rookpkg files then present in packages/ and nothing else (no entry of
\* the index it replaces, no file of another extension), and between
\* refreshes only init's first write changes packages.json.
C1_RefreshRebuildsFromScratch ==
    [][ /\ RefreshWrites => ListsExactly(packagesJson'.index, pkgDir)
        /\ packagesJson' # packagesJson => pc' \in { "refresh_index", "init_index" }
      ]_vars

\* a refresh has just written an index without packages over one that had
\* some (the old signature still covers it), a file of another extension
\* being present
C1_Witness ==
    /\ pc = "refresh_index"
    /\ packagesJson.index.packages = <<>>
    /\ packagesJsonSig.exists
    /\ Len(packagesJsonSig.sig.over.packages) > 0
    /\ Notes \in NamesIn(pkgDir)

\* C2: every packages.json on disk, written by init or by refresh, has
\* count equal to the length of its packages list.
C2_CountIsLength ==
    packagesJson.exists => packagesJson.index.count = Len(packagesJson.index.packages)

\* a refresh has written an index of two packages
C2_Witness ==
    /\ packagesJson.exists
    /\ result.cmd = "refresh"
    /\ packagesJson.index.count = 2

\* the archive a.rookpkg and its sibling signature, when both are present
SignedArchive(dir) == ArchiveA \in NamesIn(dir) /\ SigA \in NamesIn(dir)

\* the sibling signature verifies: made by the known key over the archive
SiblingVerifies(dir) ==
    /\ BytesOf(dir, SigA) = "sigA"
    /\ BytesOf(dir, ArchiveA) = "A"

\* C3: a refresh that writes packages.json counts an archive whose sibling
\* signature fails verification as invalid (and not as signed or unsigned)
\* and lists it all the same: every .rookpkg file present is listed,
\* whatever its signature status.
C3_InvalidSignatureStillIndexed ==
    [][ RefreshWrites =>
          LET invalid == SignedArchive(pkgDir) /\ ~SiblingVerifies(pkgDir)
              signed == SignedArchive(pkgDir) /\ SiblingVerifies(pkgDir)
              listed == { e.filename : e \in { packagesJson'.index.packages[i] :
                                               i \in 1..Len(packagesJson'.index.packages) } }
          IN  /\ result'.invalid_sig = (IF invalid THEN 1 ELSE 0)
              /\ result'.signed = (IF signed THEN 1 ELSE 0)
              /\ result'.unsigned + result'.signed + result'.invalid_sig = result'.scanned
              /\ \A n \in NamesIn(pkgDir) \cap Archives : (<<"packages">> \o n) \in listed
      ]_vars

\* a refresh has counted a.rookpkg, whose signature covers other bytes, as
\* invalid and listed it
C3_Witness ==
    /\ pc = "refresh_index"
    /\ result.invalid_sig = 1
    /\ SignedArchive(pkgDir)
    /\ BytesOf(pkgDir, SigA) = "sigB"
    /\ \E i \in 1..Len(packagesJson.index.packages) :
         packagesJson.index.packages[i].filename = <<"packages">> \o ArchiveA

\* C4: refresh writes packages.json first and leaves packages.json.sig alone
\* in that step; the step that completes it leaves a signature of the
\* packages.json then on disk; and the signature stops covering the index
\* only in the step of refresh that writes a new index.
C4_IndexBeforeSignature ==
    [][ /\ RefreshWrites => packagesJsonSig' = packagesJsonSig
        /\ RefreshCompletes => SigCovers' /\ packagesJson' = packagesJson
        /\ SigCovers /\ ~SigCovers' => RefreshWrites
      ]_vars

\* a refresh has completed over an index of one package or more
C4_Witness ==
    /\ pc = "idle"
    /\ result.cmd = "refresh"
    /\ result.status = "Ok"
    /\ SigCovers
    /\ packagesJson.index.count > 0

\* the window of C4: the old signature over the new index, during a
\* refresh and after one that was cut short
TornDuringRefresh ==
    pc = "refresh_index" /\ packagesJsonSig.exists /\ ~SigCovers
TornAfterRefresh ==
    pc = "idle" /\ result.cmd = "refresh" /\ result.status = "Io"
      /\ packagesJsonSig.exists /\ ~SigCovers


\* C5: a refresh that follows a successful refresh, nothing having touched
\* the directory in between, writes the packages.json that is already there.
C5_RefreshDeterministic ==
    [][ /\ pc = "idle"
        /\ result.cmd = "refresh"
        /\ result.status = "Ok"
        /\ RefreshWrites
        => packagesJson' = packagesJson
      ]_vars

\* the first step of an init, and the step that completes one
InitRuns == pc = "idle" /\ result'.cmd = "init"
InitCompletes == pc = "init_index" /\ pc' = "idle" /\ result'.status = "Ok"

\* C6: an init that passes its checks writes repo.toml while packages.json
\* and packages.json.sig do not exist yet, then packages.json while the
\* signature does not exist yet, then the signature; when it completes,
\* packages/ is there and empty, the index has no packages and carries the
\* name given to init, the signature covers it, and nothing else exists.
C6_InitCreatesSkeleton ==
    [][ /\ repoToml' # repoToml =>
             /\ InitRuns
             /\ ~pathExists /\ ~packagesJson.exists /\ ~packagesJsonSig.exists
             /\ packagesDirExists' /\ pkgDir' = <<>>
             /\ packagesJson' = packagesJson /\ packagesJsonSig' = packagesJsonSig
        /\ pc = "init_toml" /\ pc' = "init_index" =>
             /\ ~packagesJson.exists /\ packagesJson'.exists
             /\ ~packagesJsonSig'.exists
        /\ InitCompletes =>
             /\ pathExists' /\ packagesDirExists' /\ pkgDir' = <<>>
             /\ repoToml'.exists
             /\ packagesJson' = packagesJson
             /\ packagesJson'.index.packages = <<>>
             /\ packagesJson'.index.count = 0
             /\ packagesJson'.index.groups = <<>>
             /\ packagesJson'.index.repository_name = repoToml'.name
             /\ ~packagesJsonSig.exists /\ SigCovers'
             /\ ~groupsToml'.exists /\ ~deltasJson'.exists
      ]_vars

\* an init named "extra" has completed
C6_Witness ==
    /\ pc = "idle"
    /\ result = Status("init", "Ok")
    /\ repoToml.name = "extra"
    /\ packagesJson.index.repository_name = "extra"
    /\ SigCovers

\* C7: with a signing key at hand, an init on a path that holds repo.toml
\* fails with AlreadyExists and changes nothing in the directory.
C7_InitOnExistingChangesNothing ==
    [][ InitRuns /\ repoToml.exists /\ keyAvailable =>
          /\ result'.status = "AlreadyExists"
          /\ UNCHANGED << pathExists, packagesDirExists, pkgDir, repoToml, packagesJson,
                          packagesJsonSig, groupsToml, deltasJson >>
      ]_vars

\* a step of sign
SignRuns == pc = "idle" /\ result'.cmd = "sign"

\* C8: sign changes nothing but packages.json.sig; when it succeeds the
\* signature written covers the packages.json on disk; when packages.json
\* is missing or no signing key is available it fails and writes nothing.
C8_SignWritesOnlySignature ==
    [][ SignRuns =>
          /\ UNCHANGED << pathExists, packagesDirExists, pkgDir, repoToml, packagesJson,
                          groupsToml, deltasJson, keyAvailable >>
          /\ result'.status = "Ok" => SigCovers'
          /\ ~packagesJson.exists \/ ~keyAvailable =>
               /\ result'.status # "Ok"
               /\ packagesJsonSig' = packagesJsonSig
          /\ result'.status # "Ok" => packagesJsonSig' = packagesJsonSig
      ]_vars

\* sign has succeeded over an index that lists a package
C8_Witness ==
    /\ pc = "idle"
    /\ result = Status("sign", "Ok")
    /\ packagesJson.index.count > 0
    /\ SigCovers

\* sign has failed for want of packages.json, and for want of a key
SignFailedNoIndex == result = Status("sign", "IndexNotFound") /\ repoToml.exists
SignFailedNoKey == result = Status("sign", "MissingKey") /\ packagesJson.exists


(***************************************************************************)
(* Properties of the key resolver.                                         *)
(***************************************************************************)
\* t is s without its first k characters, for some k
IsSuffixOf(t, s) == \E k \in 0..Len(s) : t = [ i \in 1..(Len(s) - k) |-> s[i + k] ]

\* two fingerprints are equal or one is a suffix of the other
Related(f, g) == IsSuffixOf(f, g) \/ IsSuffixOf(g, f)

\* the keys a directory offers: those of its *.pub files that load
DirCandidates(dir) ==
    IF dir.exists /\ dir.readable
    THEN { dir.entries[i].key : i \in { j \in 1..Len(dir.entries) :
                                         dir.entries[j].ext = "pub" /\ dir.entries[j].loadable } }
    ELSE {}

\* the key a signing-key.pub location offers
SlotCandidates(slot) == IF slot.exists /\ slot.loadable THEN { slot.key } ELSE {}

\* the keys of the four locations, in search order
Candidates(store, loc) ==
    CASE loc = 1 -> DirCandidates(store.master_keys_dir)
      [] loc = 2 -> DirCandidates(store.packager_keys_dir)
      [] loc = 3 -> SlotCandidates(store.user_key)
      [] OTHER -> SlotCandidates(store.root_key)

MatchingAt(store, loc, fp) == { k \in Candidates(store, loc) : Related(k.fingerprint, fp) }

\* a key directory that exists and cannot be enumerated
Unreadable(store, loc) ==
    CASE loc = 1 -> store.master_keys_dir.exists /\ ~store.master_keys_dir.readable
      [] loc = 2 -> store.packager_keys_dir.exists /\ ~store.packager_keys_dir.readable
      [] OTHER -> FALSE

Least(S) == CHOOSE i \in S : \A j \in S : i <= j

LookupDone == found.status # "pending"

\* C9 as claimed: the lookup returns a matching key of the earliest location
\* that holds one, and fails with KeyNotFound when no location holds one.
C9_EarliestMatchOrNotFound ==
    LookupDone =>
      LET holders == { loc \in 1..4 : MatchingAt(query.store, loc, query.fingerprint) # {} }
      IN  IF holders = {}
          THEN found.status = "KeyNotFound"
          ELSE /\ found.status = "Ok"
               /\ found.key \in MatchingAt(query.store, Least(holders), query.fingerprint)

\* C9 amended: the locations are tried in order; the first that holds a
\* matching key or is a key directory that cannot be enumerated decides: the
\* lookup returns a matching key of that location, or fails with the I/O
\* error of that directory; when there is no such location it fails with
\* KeyNotFound.
C9_EarliestMatchOrError ==
    LookupDone =>
      LET deciding == { loc \in 1..4 :
                          \/ MatchingAt(query.store, loc, query.fingerprint) # {}
                          \/ Unreadable(query.store, loc) }
      IN  IF deciding = {}
          THEN found.status = "KeyNotFound"
          ELSE IF Unreadable(query.store, Least(deciding))
          THEN found.status = "Io"
          ELSE /\ found.status = "Ok"
               /\ found.key \in MatchingAt(query.store, Least(deciding), query.fingerprint)

\* the packager-keys directory decided a lookup: the master-keys directory
\* holds a key that does not match, the user location another that does
C9_Witness ==
    /\ found.status = "Ok"
    /\ MatchingAt(query.store, 1, query.fingerprint) = {}
    /\ Candidates(query.store, 1) # {}
    /\ found.key \in MatchingAt(query.store, 2, query.fingerprint)
    /\ MatchingAt(query.store, 3, query.fingerprint) # {}
    /\ found.key \notin MatchingAt(query.store, 3, query.fingerprint)

\* C10: a key is returned only if its fingerprint and the queried one are
\* equal or one ends with the other; the lookup reports KeyNotFound only if
\* no key offered at any of the four locations passes that test; and it
\* fails otherwise only on a key directory that cannot be enumerated, never
\* on a key file that cannot be loaded.
C10_SuffixMatchEverywhere ==
    LookupDone =>
      /\ found.status \in { "Ok", "KeyNotFound", "Io" }
      /\ found.status = "Ok" =>
           /\ Related(found.key.fingerprint, query.fingerprint)
           /\ \E loc \in 1..4 : found.key \in Candidates(query.store, loc)
      /\ found.status = "KeyNotFound" =>
           \A loc \in 1..4 : \A k \in Candidates(query.store, loc) :
             ~Related(k.fingerprint, query.fingerprint)
      /\ found.status = "Io" => \E loc \in 1..2 : Unreadable(query.store, loc)

\* the root location's key, shorter than the queried fingerprint, was
\* returned past an unloadable .pub file and an unloadable user key
C10_Witness ==
    /\ found.status = "Ok"
    /\ Len(found.key.fingerprint) < Len(query.fingerprint)
    /\ query.store.master_keys_dir.entries = << KeyFile("pub", FALSE, <<>>) >>
    /\ query.store.user_key = KeySlot(TRUE, FALSE, <<>>)
    /\ query.store.root_key = KeySlot(TRUE, TRUE, found.key.fingerprint)

(***************************************************************************)
(* The Arch Linux converter: name tables (convert/arch.rs).  Package names *)
(* are sequences of one-character strings.                                 *)
(***************************************************************************)
\* the sentinel of the name map: "_SKIP_"
SKIP == << "_", "S", "K", "I", "P", "_" >>

\* package_name_map(): the pairs the map is built from
package_name_map ==
    { [ from |-> << "l", "i", "n", "u", "x" >>,
        to |-> SKIP ],
      [ from |-> << "l", "i", "n", "u", "x", "-", "h", "e", "a", "d", "e", "r", "s" >>,
        to |-> SKIP ],
      [ from |-> << "l", "i", "n", "u", "x", "-", "l", "t", "s" >>,
        to |-> SKIP ],
      [ from |-> << "l", "i", "n", "u", "x", "-", "l", "t", "s", "-", "h", "e", "a", "d", "e", "r", "s" >>,
        to |-> SKIP ],
      [ from |-> << "l", "i", "n", "u", "x", "-", "z", "e", "n" >>,
        to |-> SKIP ],
      [ from |-> << "l", "i", "n", "u", "x", "-", "h", "a", "r", "d", "e", "n", "e", "d" >>,
        to |-> SKIP ],
      [ from |-> << "g", "c", "c" >>,
        to |-> SKIP ],
      [ from |-> << "g", "c", "c", "-", "l", "i", "b", "s" >>,
        to |-> SKIP ],
      [ from |-> << "g", "c", "c", "-", "f", "o", "r", "t", "r", "a", "n" >>,
        to |-> SKIP ],
      [ from |-> << "g", "c", "c", "-", "a", "d", "a" >>,
        to |-> SKIP ],
      [ from |-> << "l", "i", "b", "3", "2", "-", "g", "c", "c", "-", "l", "i", "b", "s" >>,
        to |-> SKIP ],
      [ from |-> << "g", "l", "i", "b", "c" >>,
        to |-> SKIP ],
      [ from |-> << "l", "i", "b", "3", "2", "-", "g", "l", "i", "b", "c" >>,
        to |-> SKIP ],
      [ from |-> << "p", "y", "t", "h", "o", "n" >>,
        to |-> << "p", "y", "t", "h", "o", "n", "3" >> ],
      [ from |-> << "p", "y", "t", "h", "o", "n", "2" >>,
        to |-> SKIP ],
      [ from |-> << "j", "d", "k", "-", "o", "p", "e", "n", "j", "d", "k" >>,
        to |-> << "o", "p", "e", "n", "j", "d", "k" >> ],
      [ from |-> << "j", "r", "e", "-", "o", "p", "e", "n", "j", "d", "k" >>,
        to |-> << "o", "p", "e", "n", "j", "d", "k", "-", "j", "r", "e" >> ],
      [ from |-> << "j", "d", "k", "1", "1", "-", "o", "p", "e", "n", "j", "d", "k" >>,
        to |-> << "o", "p", "e", "n", "j", "d", "k", "1", "1" >> ],
      [ from |-> << "j", "r", "e", "1", "1", "-", "o", "p", "e", "n", "j", "d", "k" >>,
        to |-> << "o", "p", "e", "n", "j", "d", "k", "1", "1", "-", "j", "r", "e" >> ],
      [ from |-> << "j", "d", "k", "1", "7", "-", "o", "p", "e", "n", "j", "d", "k" >>,
        to |-> << "o", "p", "e", "n", "j", "d", "k", "1", "7" >> ],
      [ from |-> << "j", "r", "e", "1", "7", "-", "o", "p", "e", "n", "j", "d", "k" >>,
        to |-> << "o", "p", "e", "n", "j", "d", "k", "1", "7", "-", "j", "r", "e" >> ],
      [ from |-> << "j", "d", "k", "2", "1", "-", "o", "p", "e", "n", "j", "d", "k" >>,
        to |-> << "o", "p", "e", "n", "j", "d", "k", "2", "1" >> ],
      [ from |-> << "j", "r", "e", "2", "1", "-", "o", "p", "e", "n", "j", "d", "k" >>,
        to |-> << "o", "p", "e", "n", "j", "d", "k", "2", "1", "-", "j", "r", "e" >> ],
      [ from |-> << "q", "t", "5", "-", "b", "a", "s", "e" >>,
        to |-> << "q", "t", "5" >> ],
      [ from |-> << "q", "t", "6", "-", "b", "a", "s", "e" >>,
        to |-> << "q", "t", "6" >> ],
      [ from |-> << "f", "f", "m", "p", "e", "g" >>,
        to |-> << "f", "f", "m", "p", "e", "g" >> ],
      [ from |-> << "g", "s", "t", "-", "p", "l", "u", "g", "i", "n", "s", "-", "b", "a", "s", "e" >>,
        to |-> << "g", "s", "t", "r", "e", "a", "m", "e", "r", "-", "p", "l", "u", "g", "i", "n", "s", "-", "b", "a", "s", "e" >> ],
      [ from |-> << "g", "s", "t", "-", "p", "l", "u", "g", "i", "n", "s", "-", "g", "o", "o", "d" >>,
        to |-> << "g", "s", "t", "r", "e", "a", "m", "e", "r", "-", "p", "l", "u", "g", "i", "n", "s", "-", "g", "o", "o", "d" >> ],
      [ from |-> << "g", "s", "t", "-", "p", "l", "u", "g", "i", "n", "s", "-", "b", "a", "d" >>,
        to |-> << "g", "s", "t", "r", "e", "a", "m", "e", "r", "-", "p", "l", "u", "g", "i", "n", "s", "-", "b", "a", "d" >> ],
      [ from |-> << "g", "s", "t", "-", "p", "l", "u", "g", "i", "n", "s", "-", "u", "g", "l", "y" >>,
        to |-> << "g", "s", "t", "r", "e", "a", "m", "e", "r", "-", "p", "l", "u", "g", "i", "n", "s", "-", "u", "g", "l", "y" >> ] }

\* skip_packages(): the list of names that are never converted
skip_packages ==
    << << "l", "i", "n", "u", "x" >>,
       << "l", "i", "n", "u", "x", "-", "h", "e", "a", "d", "e", "r", "s" >>,
       << "l", "i", "n", "u", "x", "-", "l", "t", "s" >>,
       << "l", "i", "n", "u", "x", "-", "l", "t", "s", "-", "h", "e", "a", "d", "e", "r", "s" >>,
       << "l", "i", "n", "u", "x", "-", "z", "e", "n" >>,
       << "l", "i", "n", "u", "x", "-", "z", "e", "n", "-", "h", "e", "a", "d", "e", "r", "s" >>,
       << "l", "i", "n", "u", "x", "-", "h", "a", "r", "d", "e", "n", "e", "d" >>,
       << "l", "i", "n", "u", "x", "-", "h", "a", "r", "d", "e", "n", "e", "d", "-", "h", "e", "a", "d", "e", "r", "s" >>,
       << "g", "c", "c" >>,
       << "g", "c", "c", "-", "l", "i", "b", "s" >>,
       << "g", "l", "i", "b", "c" >>,
       << "a", "r", "c", "h", "l", "i", "n", "u", "x", "-", "k", "e", "y", "r", "i", "n", "g" >>,
       << "a", "r", "c", "h", "l", "i", "n", "u", "x", "-", "m", "i", "r", "r", "o", "r", "l", "i", "s", "t" >>,
       << "a", "r", "c", "h", "i", "n", "s", "t", "a", "l", "l" >>,
       << "p", "a", "c", "m", "a", "n" >>,
       << "p", "a", "c", "m", "a", "n", "-", "m", "i", "r", "r", "o", "r", "l", "i", "s", "t" >>,
       << "m", "k", "i", "n", "i", "t", "c", "p", "i", "o" >>,
       << "m", "k", "i", "n", "i", "t", "c", "p", "i", "o", "-", "b", "u", "s", "y", "b", "o", "x" >>,
       << "d", "r", "a", "c", "u", "t" >> >>

\* Option<String>
Some(s) == [ some |-> TRUE, text |-> s ]
None == [ some |-> FALSE, text |-> << >> ]

\* HashMap::get on the name map
name_map_get(name) ==
    LET hits == { e \in package_name_map : e.from = name }
    IN  IF hits = {} THEN None ELSE Some((CHOOSE e \in hits : TRUE).to)

\* Vec::contains
contains(list, x) == \E i \in 1..Len(list) : list[i] = x

\* str::starts_with
starts_with(s, t) ==
    /\ Len(t) <= Len(s)
    /\ SubSeq(s, 1, Len(t)) = t

Lib32Prefix == << "l", "i", "b", "3", "2", "-" >>

\* should_skip without the map lookup
should_skip_NoMapLookup(pkg_name) ==
    IF contains(skip_packages, pkg_name) THEN TRUE
    ELSE starts_with(pkg_name, Lib32Prefix)

should_skip(pkg_name) ==
    IF contains(skip_packages, pkg_name) THEN TRUE
    ELSE IF starts_with(pkg_name, Lib32Prefix) THEN TRUE
    ELSE LET mapped == name_map_get(pkg_name)
         IN  mapped.some /\ mapped.text = SKIP

map_package_name(arch_name) ==
    LET mapped == name_map_get(arch_name)
    IN  IF mapped.some /\ mapped.text # SKIP THEN mapped.text ELSE arch_name

(***************************************************************************)
(* The names the converter is asked about: every name of the two tables,   *)
(* every mapping target, some names of neither table, and each of those    *)
(* behind the lib32- prefix.                                               *)
(***************************************************************************)
Firefox == << "f", "i", "r", "e", "f", "o", "x" >>
Lib32NoDash == << "l", "i", "b", "3", "2" >>
TableNames ==
    { e.from : e \in package_name_map } \cup { e.to : e \in package_name_map }
        \cup { skip_packages[i] : i \in 1..Len(skip_packages) }
PlainNames == TableNames \cup { Firefox, Lib32NoDash, << "x" >>, << >> }
PackageNames == PlainNames \cup { Lib32Prefix \o n : n \in PlainNames }

NameOutput(op, skip, mapped) == [ op |-> op, skip |-> skip, mapped |-> mapped ]

NamesInit ==
    /\ RepoInit
    /\ keyAvailable
    /\ query = NoQuery
    /\ found = Failed("")
    /\ DriverIdle
    /\ ParserIdle
    /\ input \in PackageNames
    /\ output = NameOutput("pending", FALSE, << >>)

ShouldSkip ==
    /\ output.op = "pending"
    /\ output' = NameOutput("should_skip", should_skip(input), << >>)
    /\ UNCHANGED << repoVars, query, found, driverVars, parserVars, input >>

MapPackageName ==
    /\ output.op = "pending"
    /\ output' = NameOutput("map_package_name", FALSE, map_package_name(input))
    /\ UNCHANGED << repoVars, query, found, driverVars, parserVars, input >>

NamesNext == ShouldSkip \/ MapPackageName

SpecNames == NamesInit /\ [][NamesNext]_vars

(***************************************************************************)
(* Properties of the name tables.                                          *)
(***************************************************************************)
SkipListed == { skip_packages[i] : i \in 1..Len(skip_packages) }
MappedToSkip == { e.from : e \in { m \in package_name_map : m.to = SKIP } }
HasLib32Prefix(name) ==
    /\ Len(name) >= Len(Lib32Prefix)
    /\ \A i \in 1..Len(Lib32Prefix) : name[i] = Lib32Prefix[i]

\* C11: should_skip(name) is true exactly when the name is in the skip
\* list, or starts with lib32-, or the name map sends it to _SKIP_; it is
\* false for every other name.
C11_ShouldSkipExactly ==
    output.op = "should_skip" =>
      (output.skip <=> \/ input \in SkipListed
                       \/ HasLib32Prefix(input)
                       \/ input \in MappedToSkip)

\* python2 and its like: names that only the map excludes
C11_Witness ==
    /\ output.op = "should_skip"
    /\ output.skip
    /\ input \in MappedToSkip \ SkipListed
    /\ ~HasLib32Prefix(input)

C11_WitnessSkipListOnly ==
    output.op = "should_skip" /\ output.skip /\ input \in SkipListed \ MappedToSkip
C11_WitnessPrefixOnly ==
    /\ output.op = "should_skip" /\ output.skip /\ HasLib32Prefix(input)
    /\ input \notin SkipListed \cup MappedToSkip
C11_WitnessFirefox == output.op = "should_skip" /\ ~output.skip /\ input = Firefox

(***************************************************************************)
(* The conversion drivers (convert/arch.rs, cli/convert.rs).  The network  *)
(* and the output directory answer each request with success or failure;   *)
(* of the recipe text a fetch returns only one thing is looked at here:    *)
(* whether Pkgbuild::parse returns a recipe for it or panics.  The emitted *)
(* document is named by its package only.                                  *)
(***************************************************************************)
\* most PKGBUILD requests recorded
MaxFetches == 2
\* most packages of a listing
MaxListing == 2

Python == << "p", "y", "t", "h", "o", "n" >>
Python2 == << "p", "y", "t", "h", "o", "n", "2" >>
Pacman == << "p", "a", "c", "m", "a", "n" >>
Lib32Glibc == Lib32Prefix \o << "g", "l", "i", "b", "c" >>
\* the package names the drivers are run on
DriverNames == { Firefox, Python, Python2, Pacman, Lib32Glibc }
\* what fetch_package_list may return
Listings == UNION { [ 1..n -> DriverNames ] : n \in 0..MaxListing }

\* the outcome of convert: its status, whether it sent the PKGBUILD request
ConvertResult(status, requested) == [ status |-> status, requested |-> requested ]

\* convert without its skip-list test
convert_NoSkipTest(pkg_name, http_ok, parse_ok) ==
    IF ~http_ok THEN ConvertResult("FetchFailed", TRUE)
    ELSE IF ~parse_ok THEN ConvertResult("Panic", TRUE)
    ELSE ConvertResult("Ok", TRUE)

\* ArchConverter::convert; Pkgbuild::parse returns Ok or panics (in
\* strip_quotes), pkgbuild_to_rook returns Ok
convert(pkg_name, http_ok, parse_ok) ==
    IF should_skip(pkg_name) THEN ConvertResult("SkipList", FALSE)
    ELSE IF ~http_ok THEN ConvertResult("FetchFailed", TRUE)
    ELSE IF ~parse_ok THEN ConvertResult("Panic", TRUE)
    ELSE ConvertResult("Ok", TRUE)

request(log, name, r) == IF r.requested THEN Append(log, name) ELSE log

\* a call of the public convert
Convert(pkg_name, http_ok, parse_ok) ==
    LET r == convert(pkg_name, http_ok, parse_ok)
    IN  /\ convPc = "idle"
        /\ r.requested => Len(fetched) < MaxFetches
        /\ fetched' = request(fetched, pkg_name, r)
        /\ convResult' = ConvOutcome("convert", r.status, pkg_name)
        /\ UNCHANGED << convPc, packages, cursor, stats, rookFiles >>

\* rookpkg convert arch <pkg>
RunArchSingle(pkg_name, http_ok, parse_ok, io_ok) ==
    /\ convPc = "idle"
    /\ IF should_skip(pkg_name)
       THEN /\ convResult' = ConvOutcome("run_arch_single", "SkipList", pkg_name)
            /\ UNCHANGED << fetched, rookFiles >>
       ELSE LET r == convert(pkg_name, http_ok, parse_ok)
            IN  /\ r.requested => Len(fetched) < MaxFetches
                /\ fetched' = request(fetched, pkg_name, r)
                /\ IF r.status # "Ok"
                   THEN /\ convResult' = ConvOutcome("run_arch_single", r.status, pkg_name)
                        /\ UNCHANGED rookFiles
                   ELSE IF ~io_ok
                   THEN /\ convResult' = ConvOutcome("run_arch_single", "Io", pkg_name)
                        /\ UNCHANGED rookFiles
                   ELSE /\ convResult' = ConvOutcome("run_arch_single", "Ok", pkg_name)
                        /\ rookFiles' = rookFiles \cup { pkg_name }
    /\ UNCHANGED << convPc, packages, cursor, stats >>

\* rookpkg convert arch --all, up to the loop: the output directory is
\* created and the listing fetched
ConvertAllBegin(io_ok, listing_ok, listing) ==
    /\ convPc = "idle"
    /\ IF ~io_ok
       THEN /\ convResult' = ConvOutcome("convert_all", "Io", << >>)
            /\ UNCHANGED << convPc, packages, cursor, stats >>
       ELSE IF ~listing_ok
       THEN /\ convResult' = ConvOutcome("convert_all", "ListingFailed", << >>)
            /\ UNCHANGED << convPc, packages, cursor, stats >>
       ELSE /\ convPc' = "convert_all"
            /\ packages' = listing
            /\ cursor' = 0
            /\ stats' = ConversionStats_new(Len(listing))
            /\ convResult' = NoConvOutcome
    /\ UNCHANGED << fetched, rookFiles >>

\* one iteration of the loop of convert_all; a panic of the parser ends
\* the command, and the statistics with it
ConvertAllStep(http_ok, parse_ok, io_ok) ==
    /\ convPc = "convert_all"
    /\ cursor < Len(packages)
    /\ LET pkg_name == packages[cursor + 1]
       IN  IF should_skip(pkg_name)
           THEN /\ stats' = [ stats EXCEPT !.skipped = @ + 1 ]
                /\ cursor' = cursor + 1
                /\ UNCHANGED << convPc, convResult, fetched, rookFiles >>
           ELSE LET r == convert(pkg_name, http_ok, parse_ok)
                IN  /\ r.requested => Len(fetched) < MaxFetches
                    /\ fetched' = request(fetched, pkg_name, r)
                    /\ IF r.status = "Panic"
                       THEN /\ convPc' = "idle"
                            /\ convResult' = ConvOutcome("convert_all", "Panic", pkg_name)
                            /\ UNCHANGED << cursor, stats, rookFiles >>
                       ELSE IF r.status = "Ok" /\ io_ok
                       THEN /\ stats' = [ stats EXCEPT !.converted = @ + 1 ]
                            /\ rookFiles' = rookFiles \cup { pkg_name }
                            /\ cursor' = cursor + 1
                            /\ UNCHANGED << convPc, convResult >>
                       ELSE /\ stats' = [ stats EXCEPT
                                            !.failed = @ + 1,
                                            !.failed_packages = Append(@, pkg_name) ]
                            /\ cursor' = cursor + 1
                            /\ UNCHANGED << convPc, convResult, rookFiles >>
    /\ UNCHANGED packages

\* convert_all returns its statistics
ConvertAllReturn ==
    /\ convPc = "convert_all"
    /\ cursor = Len(packages)
    /\ convPc' = "idle"
    /\ convResult' = ConvOutcome("convert_all", "Ok", << >>)
    /\ UNCHANGED << packages, cursor, stats, fetched, rookFiles >>

DriverInit ==
    /\ RepoInit
    /\ keyAvailable
    /\ query = NoQuery
    /\ found = Failed("")
    /\ ConverterIdle

DriverNext ==
    \/ /\ \E pkg_name \in DriverNames : \E http_ok, parse_ok \in BOOLEAN :
            Convert(pkg_name, http_ok, parse_ok)
       /\ UNCHANGED << repoVars, query, found, fnVars, parserVars, listVars >>
    \/ /\ \E pkg_name \in DriverNames : \E http_ok, parse_ok, io_ok \in BOOLEAN :
            RunArchSingle(pkg_name, http_ok, parse_ok, io_ok)
       /\ UNCHANGED << repoVars, query, found, fnVars, parserVars, listVars >>
    \/ /\ \E io_ok, listing_ok \in BOOLEAN : \E listing \in Listings :
            ConvertAllBegin(io_ok, listing_ok, listing)
       /\ UNCHANGED << repoVars, query, found, fnVars, parserVars, listVars >>
    \/ /\ \E http_ok, parse_ok, io_ok \in BOOLEAN : ConvertAllStep(http_ok, parse_ok, io_ok)
       /\ UNCHANGED << repoVars, query, found, fnVars, parserVars, listVars >>
    \/ ConvertAllReturn /\ UNCHANGED << repoVars, query, found, fnVars, parserVars, listVars >>

SpecDriver == DriverInit /\ [][DriverNext]_vars

(***************************************************************************)
(* Properties of the drivers.                                              *)
(***************************************************************************)
ShouldBeSkipped(name) ==
    name \in SkipListed \/ HasLib32Prefix(name) \/ name \in MappedToSkip

\* a call of convert or of the single-package command returns in this step
SingleCallReturns ==
    /\ convPc = "idle"
    /\ convPc' = "idle"
    /\ convResult'.call \in { "convert", "run_arch_single" }
\* the bulk loop visits a package in this step
BulkVisits == convPc = "convert_all" /\ cursor' = cursor + 1

\* C12: for a name that should be skipped, convert (and the single-package
\* command) fails with the skip-list error without sending a request and
\* without writing a file, and the bulk loop counts the package as skipped,
\* not as failed, again without a request or a file.
C12_SkipBeforeAnyWork ==
    [][ /\ (SingleCallReturns /\ ShouldBeSkipped(convResult'.name)) =>
             /\ convResult'.status = "SkipList"
             /\ fetched' = fetched
             /\ rookFiles' = rookFiles
        /\ (BulkVisits /\ ShouldBeSkipped(packages[cursor + 1])) =>
             /\ stats'.skipped = stats.skipped + 1
             /\ stats'.failed = stats.failed
             /\ stats'.failed_packages = stats.failed_packages
             /\ stats'.converted = stats.converted
             /\ fetched' = fetched
             /\ rookFiles' = rookFiles ]_vars

\* a bulk run over two packages skipped both and returned, then the
\* single-package command refused lib32-glibc: no request was ever sent and
\* no file written
C12_Witness ==
    /\ convPc = "idle"
    /\ convResult = ConvOutcome("run_arch_single", "SkipList", Lib32Glibc)
    /\ stats.total = 2
    /\ stats.skipped = 2
    /\ stats.failed = 0
    /\ fetched = << >>
    /\ rookFiles = {}

\* the bulk loop is at a package in this step
BulkAtPackage == convPc = "convert_all" /\ cursor < Len(packages)

\* the counters add up over the packages visited so far
CountersAddUp ==
    /\ stats.total = Len(packages)
    /\ stats.converted + stats.skipped + stats.failed = cursor
    /\ stats.failed = Len(stats.failed_packages)

\* this step visits the package at the cursor and counts it once: as
\* skipped, as converted with its file written, or as failed with its name
\* recorded
CountsPackage ==
    LET name == packages[cursor + 1]
    IN  /\ cursor' = cursor + 1
        /\ convPc' = "convert_all"
        /\ IF ShouldBeSkipped(name)
           THEN stats' = [ stats EXCEPT !.skipped = @ + 1 ]
           ELSE \/ /\ stats' = [ stats EXCEPT !.converted = @ + 1 ]
                   /\ name \in rookFiles'
                \/ /\ stats' = [ stats EXCEPT !.failed = @ + 1,
                                              !.failed_packages = Append(@, name) ]
                   /\ rookFiles' = rookFiles

\* C25: whatever the listing and whichever packages fail to be fetched,
\* parsed, emitted or written, the bulk driver visits each listed package
\* once, in listing order, and returns; total is the length of the listing,
\* total = converted + skipped + failed on return, failed is the length of
\* failed_packages, and failed_packages holds the non-skipped packages whose
\* conversion or write failed.
C25_BulkDriverIsolatesFailures ==
    /\ [](convPc = "convert_all" => CountersAddUp)
    /\ [][BulkAtPackage => CountsPackage]_vars
    /\ [][convPc = "convert_all" /\ convPc' = "idle"
             => /\ convResult'.status = "Ok"
                /\ cursor' = Len(packages)
                /\ stats' = stats
                /\ stats.total = stats.converted + stats.skipped + stats.failed]_vars

(***************************************************************************)
(* The package listing (ArchConverter::fetch_package_list).  The server    *)
(* answers each request; of a page only the number of its results is kept, *)
(* so the listing is the sequence of the pages received.                   *)
(***************************************************************************)
\* most pages requested of one repository
MaxPages == 3
\* the page size of the search API
PageLimit == 250

Repositories == << "Core", "Extra" >>

\* what a request may come to: send fails, the status is not a success, the
\* body cannot be read, the body is not the expected JSON, or a page of
\* count results arrives
Response(kind, count) == [ kind |-> kind, count |-> count ]
PageCounts == { 0, 1, PageLimit - 1, PageLimit }
Responses ==
    { Response(kind, 0) : kind \in { "SendError", "HttpError", "TextError", "BadJson" } }
        \cup { Response("Page", count) : count \in PageCounts }

\* the results of a page, and a request with its answer
Batch(name, number, count) == [ repo |-> name, page |-> number, count |-> count ]
Request(name, number, response) == [ repo |-> name, page |-> number, response |-> response ]

\* the `?` of the loop: the function returns the error
returns_error(response) == response.kind \in { "SendError", "TextError" }

\* the loop goes on only after an empty page
stops_repository_OnEmptyOnly(response) ==
    \/ response.kind \in { "HttpError", "BadJson" }
    \/ response.kind = "Page" /\ response.count = 0

\* the breaks of the loop
stops_repository(response) ==
    \/ response.kind \in { "HttpError", "BadJson" }
    \/ response.kind = "Page" /\ response.count < PageLimit

\* packages.extend(search_result.results)
extend(list, name, number, response) ==
    IF response.kind = "Page" /\ response.count > 0
    THEN Append(list, Batch(name, number, response.count))
    ELSE list

\* fetch_package_list is called
FetchPackageListBegin ==
    /\ convPc = "idle"
    /\ convPc' = "fetch_package_list"
    /\ repo' = 1
    /\ page' = 1
    /\ packages' = << >>
    /\ fetched' = << >>
    /\ convResult' = NoConvOutcome
    /\ UNCHANGED << cursor, stats, rookFiles >>

\* one iteration of the loop: the request of the page and what follows from
\* its answer, up to the next request or the return
FetchPage(response) ==
    /\ convPc = "fetch_package_list"
    /\ ~returns_error(response) /\ ~stops_repository(response) => page < MaxPages
    /\ fetched' = Append(fetched, Request(Repositories[repo], page, response))
    /\ IF returns_error(response)
       THEN /\ convPc' = "idle"
            /\ convResult' = ConvOutcome("fetch_package_list", "Err", << >>)
            /\ packages' = << >>
            /\ repo' = 0
            /\ page' = 1
       ELSE /\ packages' = extend(packages, Repositories[repo], page, response)
            /\ IF ~stops_repository(response)
               THEN /\ page' = page + 1
                    /\ UNCHANGED << convPc, convResult, repo >>
               ELSE IF repo < Len(Repositories)
               THEN /\ repo' = repo + 1
                    /\ page' = 1
                    /\ UNCHANGED << convPc, convResult >>
               ELSE /\ convPc' = "idle"
                    /\ convResult' = ConvOutcome("fetch_package_list", "Ok", << >>)
                    /\ repo' = 0
                    /\ page' = 1
    /\ UNCHANGED << cursor, stats, rookFiles >>

ListingInit ==
    /\ RepoInit
    /\ keyAvailable
    /\ query = NoQuery
    /\ found = Failed("")
    /\ ConverterIdle

ListingStep ==
    /\ \E response \in Responses : FetchPage(response)
    /\ UNCHANGED << repoVars, query, found, fnVars, parserVars >>

ListingNext ==
    \/ FetchPackageListBegin /\ UNCHANGED << repoVars, query, found, fnVars, parserVars >>
    \/ ListingStep

\* the loop is straight-line code: a call that has begun goes on to its
\* next request
SpecListing == ListingInit /\ [][ListingNext]_vars /\ WF_vars(ListingStep)

(***************************************************************************)
(* Properties of the listing.                                              *)
(***************************************************************************)
IsShortPage(r) == r.response.kind = "Page" /\ r.response.count < PageLimit
IsFullPage(r) == r.response.kind = "Page" /\ r.response.count = PageLimit
IsHttpError(r) == r.response.kind = "HttpError"
IsUndecodable(r) == r.response.kind = "BadJson"
IsTransportError(r) == r.response.kind \in { "SendError", "TextError" }

\* the request that follows a log of answered requests; NoRequest after the
\* last one.  Ends(r) says which answers end a repository.
NoRequest == [ repo |-> "", page |-> 0 ]
FirstRequest == [ repo |-> "Core", page |-> 1 ]
Following(log, Ends(_)) ==
    IF log = << >> THEN FirstRequest
    ELSE LET last == log[Len(log)]
         IN  IF ~Ends(last) THEN [ repo |-> last.repo, page |-> last.page + 1 ]
             ELSE IF last.repo = "Core" THEN [ repo |-> "Extra", page |-> 1 ]
             ELSE NoRequest

\* the pages of results of a log, in order
RECURSIVE Received(_)
Received(log) ==
    IF log = << >> THEN << >>
    ELSE LET r == log[Len(log)]
             before == Received(SubSeq(log, 1, Len(log) - 1))
         IN  IF r.response.kind = "Page" /\ r.response.count > 0
             THEN Append(before, Batch(r.repo, r.page, r.response.count))
             ELSE before

\* the requests are made in the order Following gives, the call is at the
\* request that follows its log, and it holds or returns all it received
ListsInSequence(Ends(_)) ==
    /\ \A i \in 1..Len(fetched) :
           [ repo |-> fetched[i].repo, page |-> fetched[i].page ]
               = Following(SubSeq(fetched, 1, i - 1), Ends)
    /\ convPc = "fetch_package_list"
           => /\ repo \in 1..Len(Repositories)
              /\ [ repo |-> Repositories[repo], page |-> page ] = Following(fetched, Ends)
              /\ packages = Received(fetched)
    /\ convPc = "idle" /\ convResult.status = "Ok"
           => /\ Following(fetched, Ends) = NoRequest
              /\ packages = Received(fetched)

EndsPerClaim(r) == IsShortPage(r) \/ IsHttpError(r)
EndsRepository(r) == IsShortPage(r) \/ IsHttpError(r) \/ IsUndecodable(r)

\* C26 as stated: for Core, then Extra, pages 1, 2, 3, ... are requested
\* in sequence; a repository is left exactly when a page has fewer than 250
\* results or the status is not a success, and page n+1 is requested only
\* after page n had exactly 250 results; every result received is kept, the
\* next repository follows, and the call returns.
C26_StopsOnShortPageOrHttpError ==
    /\ [](convResult.call \in { "", "fetch_package_list" } =>
            /\ \A i \in 1..Len(fetched) : IsFullPage(fetched[i]) \/ EndsPerClaim(fetched[i])
            /\ ListsInSequence(EndsPerClaim)
            /\ convPc = "idle" /\ fetched # << >> => convResult.status = "Ok")
    /\ (convPc = "fetch_package_list" ~> convPc = "idle")

\* C26: for Core, then Extra, pages 1, 2, 3, ... are requested in sequence;
\* a repository is left when a page has fewer than 250 results, when the
\* status is not a success, or when the body of the page cannot be decoded,
\* and page n+1 is requested only after page n had exactly 250 results;
\* every result received is kept and the next repository follows.  A
\* request that cannot be sent, or whose body cannot be read, ends the call
\* with that error and without a listing.  The call returns in every case.
C26_ListingLoop ==
    /\ [](convResult.call \in { "", "fetch_package_list" } =>
            /\ \A i \in 1..Len(fetched) :
                   \/ IsFullPage(fetched[i])
                   \/ EndsRepository(fetched[i])
                   \/ /\ IsTransportError(fetched[i])
                      /\ i = Len(fetched)
                      /\ convPc = "idle"
                      /\ convResult.status = "Err"
                      /\ packages = << >>
            /\ (\A i \in 1..Len(fetched) : ~IsTransportError(fetched[i]))
                   => ListsInSequence(EndsRepository)
            /\ convPc = "idle" /\ fetched # << >> => convResult.status \in { "Ok", "Err" })
    /\ (convPc = "fetch_package_list" ~> convPc = "idle")

\* Core gave a full page and a short one, Extra an error status: the call
\* returned the two pages of Core
C26_Witness ==
    /\ convPc = "idle"
    /\ convResult = ConvOutcome("fetch_package_list", "Ok", << >>)
    /\ fetched = << Request("Core", 1, Response("Page", PageLimit)),
                    Request("Core", 2, Response("Page", 1)),
                    Request("Extra", 1, Response("HttpError", 0)) >>
    /\ packages = << Batch("Core", 1, PageLimit), Batch("Core", 2, 1) >>

(***************************************************************************)
(* The dependency codec and the dependency lines of the emitter            *)
(* (convert/arch.rs).  A dependency string is a sequence of one-character  *)
(* strings.                                                                *)
(***************************************************************************)
\* longest dependency string drawn from the alphabet below
MaxDepLen == 4

\* str::find: the position of the first occurrence of pat in s, 0 if none
find(s, pat) ==
    LET at == { i \in 1..Len(s) : /\ i + Len(pat) - 1 <= Len(s)
                                  /\ SubSeq(s, i, i + Len(pat) - 1) = pat }
    IN  IF at = {} THEN 0 ELSE CHOOSE i \in at : \A j \in at : i <= j

\* str::trim, the white space of the model being the blank
trim(s) ==
    LET inked == { i \in 1..Len(s) : s[i] # " " }
    IN  IF inked = {} THEN << >>
        ELSE SubSeq(s, CHOOSE i \in inked : \A j \in inked : i <= j,
                       CHOOSE i \in inked : \A j \in inked : j <= i)

\* the operators with "=" tried first
operators_EqualsFirst == << << "=" >>, << ">", "=" >>, << "<", "=" >>, << ">" >>, << "<" >> >>

\* the operators of parse_dependency in the order they are tried
operators == << << ">", "=" >>, << "<", "=" >>, << ">" >>, << "<" >>, << "=" >> >>

Dependency(name, constraint) == [ name |-> name, constraint |-> constraint ]

parse_dependency(dep) ==
    LET present == { k \in 1..Len(operators) : find(dep, operators[k]) # 0 }
    IN  IF present = {} THEN Dependency(trim(dep), None)
        ELSE LET op == operators[CHOOSE k \in present : \A j \in present : k <= j]
                 pos == find(dep, op)
             IN  Dependency(trim(SubSeq(dep, 1, pos - 1)),
                            Some(trim(SubSeq(dep, pos, Len(dep)))))

\* map_dependency that skips nothing
map_dependency_SkipNothing(dep) ==
    LET d == parse_dependency(dep)
        mapped_name == map_package_name(d.name)
    IN  IF d.constraint.some
        THEN Some(mapped_name \o << " " >> \o d.constraint.text)
        ELSE Some(mapped_name)

map_dependency(dep) ==
    LET d == parse_dependency(dep)
        mapped_name == map_package_name(d.name)
    IN  IF should_skip(d.name) THEN None
        ELSE IF d.constraint.some
        THEN Some(mapped_name \o << " " >> \o d.constraint.text)
        ELSE Some(mapped_name)

\* str::replace: every occurrence of pat, found left to right, becomes to
RECURSIVE replace(_, _, _)
replace(s, pat, to) ==
    IF Len(s) < Len(pat) THEN s
    ELSE IF SubSeq(s, 1, Len(pat)) = pat
    THEN to \o replace(SubSeq(s, Len(pat) + 1, Len(s)), pat, to)
    ELSE << s[1] >> \o replace(Tail(s), pat, to)

escape_toml_string(s) ==
    LET s1 == replace(s, << "\\" >>, << "\\", "\\" >>)
        s2 == replace(s1, << "\"" >>, << "\\", "\"" >>)
        s3 == replace(s2, << "\n" >>, << "\\", "n" >>)
        s4 == replace(s3, << "\r" >>, << "\\", "r" >>)
    IN  replace(s4, << "\t" >>, << "\\", "t" >>)

\* a line of the emitted document: `key = "value"` (kind "string") or
\* `key = ["value"]` (kind "array") among others; value is the text between
\* the quotes; the sha256 field is used by the lines of [sources] only
Line(kind, key, value) ==
    [ kind |-> kind, key |-> key, value |-> value, sha256 |-> << >> ]
AnyVersion == << ">", "=", " ", "0" >>

\* the lines the emitter writes for one entry of depends, makedepends or
\* checkdepends
emit_dependency(dep) ==
    LET mapped == map_dependency(dep)
    IN  IF ~mapped.some THEN << >>
        ELSE LET d == parse_dependency(mapped.text)
             IN  IF d.constraint.some
                 THEN << Line("string", d.name, d.constraint.text) >>
                 ELSE << Line("string", d.name, AnyVersion) >>

\* str::splitn(2, ':'): the text before the first colon and the text after it
before_colon(s) == IF find(s, << ":" >>) = 0 THEN s ELSE SubSeq(s, 1, find(s, << ":" >>) - 1)
after_colon(s) == IF find(s, << ":" >>) = 0 THEN << >> ELSE SubSeq(s, find(s, << ":" >>) + 1, Len(s))

\* the lines the emitter writes for one entry `pkg: description` of
\* optdepends
emit_optional_dependency(dep) ==
    LET dep_name == trim(before_colon(dep))
        description == trim(after_colon(dep))
        mapped == map_dependency(dep_name)
    IN  IF ~mapped.some THEN << >>
        ELSE << Line("array", parse_dependency(mapped.text).name,
                     escape_toml_string(description)) >>

(***************************************************************************)
(* The dependency strings the codec is applied to: every string over a     *)
(* small alphabet, and the names of the driver sample and glibc and        *)
(* qt6-base, bare and with each of a few constraints, without and with a   *)
(* description.                                                            *)
(***************************************************************************)
DepAlphabet == { "a", "1", ">", "<", "=", " ", ":" }
Glibc == << "g", "l", "i", "b", "c" >>
Qt6Base == << "q", "t", "6", "-", "b", "a", "s", "e" >>
Constraints ==
    { << >>, << ">", "=", "2", ".", "3", "8" >>, << "<", "=", "2" >>, << ">", "2" >>,
      << "<", "2" >>, << "=", "6", ".", "7", ".", "0" >>, << " ", ">", "=", " ", "2" >> }
DepStrings ==
    UNION { [ 1..n -> DepAlphabet ] : n \in 0..MaxDepLen }
        \cup { n \o c \o d : n \in DriverNames \cup { Glibc, Qt6Base }, c \in Constraints,
                            d \in { << >>, << ":", " ", "a", " ", "1" >>,
                                    << ":", " ", "f", "o", "r", " ", "\"", "x", "\"" >> } }

DepOutput(op, dependency, mapped, lines) ==
    [ op |-> op, dependency |-> dependency, mapped |-> mapped, lines |-> lines ]

DepsInit ==
    /\ RepoInit
    /\ keyAvailable
    /\ query = NoQuery
    /\ found = Failed("")
    /\ DriverIdle
    /\ ParserIdle
    /\ input \in DepStrings
    /\ output = DepOutput("pending", Dependency(<< >>, None), None, << >>)

ParseDependency ==
    /\ output.op = "pending"
    /\ output' = DepOutput("parse_dependency", parse_dependency(input), None, << >>)
    /\ UNCHANGED << repoVars, query, found, driverVars, parserVars, input >>

MapDependency ==
    /\ output.op = "pending"
    /\ output' = DepOutput("map_dependency", Dependency(<< >>, None),
                           map_dependency(input), << >>)
    /\ UNCHANGED << repoVars, query, found, driverVars, parserVars, input >>

EmitDependency ==
    /\ output.op = "pending"
    /\ output' = DepOutput("emit_dependency", Dependency(<< >>, None), None,
                           emit_dependency(input))
    /\ UNCHANGED << repoVars, query, found, driverVars, parserVars, input >>

EmitOptionalDependency ==
    /\ output.op = "pending"
    /\ output' = DepOutput("emit_optional_dependency", Dependency(<< >>, None), None,
                           emit_optional_dependency(input))
    /\ UNCHANGED << repoVars, query, found, driverVars, parserVars, input >>

DepsNext == ParseDependency \/ MapDependency \/ EmitDependency \/ EmitOptionalDependency

SpecDeps == DepsInit /\ [][DepsNext]_vars

(***************************************************************************)
(* Properties of the dependency codec.                                     *)
(***************************************************************************)
\* a text without operator characters and without white space
IsWord(s) == \A i \in 1..Len(s) : s[i] \notin { ">", "<", "=", " " }
ComparisonOps == { << ">", "=" >>, << "<", "=" >>, << ">" >>, << "<" >>, << "=" >> }
\* the ways to read dep as name<op><ver>
Readings(dep) ==
    { r \in [ p : 1..Len(dep), op : ComparisonOps ] :
        /\ r.p + Len(r.op) - 1 <= Len(dep)
        /\ SubSeq(dep, r.p, r.p + Len(r.op) - 1) = r.op
        /\ IsWord(SubSeq(dep, 1, r.p - 1))
        /\ IsWord(SubSeq(dep, r.p + Len(r.op), Len(dep))) }
NameOf(dep, r) == SubSeq(dep, 1, r.p - 1)
ConstraintOf(dep, r) == SubSeq(dep, r.p, Len(dep))

\* C13: parse_dependency of name<op><ver>, <op> one of >=, <=, >, <, =,
\* yields the name and the constraint <op><ver> with the whole operator at
\* its front; of a bare name it yields the name and no constraint; and the
\* two parts concatenated are the input again.
C13_ParseDependencyRoundTrip ==
    output.op = "parse_dependency" =>
      /\ \A r \in Readings(input) :
           /\ output.dependency = Dependency(NameOf(input, r), Some(ConstraintOf(input, r)))
           /\ SubSeq(output.dependency.constraint.text, 1, Len(r.op)) = r.op
           /\ output.dependency.name \o output.dependency.constraint.text = input
      /\ IsWord(input) => output.dependency = Dependency(input, None)

\* glibc>=2.38 parsed: the constraint starts with both characters of >=
C13_Witness ==
    /\ output.op = "parse_dependency"
    /\ input = Glibc \o << ">", "=", "2", ".", "3", "8" >>
    /\ output.dependency = Dependency(Glibc, Some(<< ">", "=", "2", ".", "3", "8" >>))
    /\ Readings(input) # {}

\* the name the tables give a package that is not skipped
Target(name) ==
    IF \E e \in package_name_map : e.from = name
    THEN (CHOOSE e \in package_name_map : e.from = name).to
    ELSE name

\* the line the claim describes for a dependency that is not skipped
ConstraintLine(name, constraint) ==
    Line("string", Target(name), IF constraint.some THEN constraint.text ELSE AnyVersion)
\* what the claim says of the lines written for the dependency dep
LinePerClaim(dep, lines) ==
    /\ \A r \in Readings(dep) :
         IF ShouldBeSkipped(NameOf(dep, r))
         THEN lines = << >>
         ELSE /\ lines = << ConstraintLine(NameOf(dep, r), Some(ConstraintOf(dep, r))) >>
              /\ lines[1].key # SKIP
    /\ IsWord(dep) =>
         IF ShouldBeSkipped(dep)
         THEN lines = << >>
         ELSE /\ lines = << ConstraintLine(dep, None) >>
              /\ lines[1].key # SKIP
\* an entry of optdepends whose dependency and description are plain
IsPlainOptional(entry) ==
    /\ before_colon(entry) = trim(before_colon(entry))
    /\ \A i \in 1..Len(after_colon(entry)) : after_colon(entry)[i] \in { "a", "1", " " }
\* the part of a text between its leading and trailing blanks
Stripped(s) ==
    CHOOSE t \in { SubSeq(s, i, j) : i \in 1..(Len(s) + 1), j \in 0..Len(s) } :
      /\ \E i \in 1..(Len(s) + 1) : \E j \in 0..Len(s) :
           /\ t = SubSeq(s, i, j)
           /\ \A k \in 1..Len(s) : (k < i \/ k > j) => s[k] = " "
      /\ t # << >> => t[1] # " " /\ t[Len(t)] # " "

\* C14 as stated: for every dependency string of a recipe, those of
\* optdepends included, the emitter drops the entry when its name should
\* be skipped, and otherwise writes one line keyed by the mapped name whose
\* value is the constraint, or ">= 0" when there is none.
C14_EveryListConstraintLine ==
    /\ output.op = "emit_dependency" => LinePerClaim(input, output.lines)
    /\ (output.op = "emit_optional_dependency" /\ IsPlainOptional(input)) =>
         LinePerClaim(before_colon(input), output.lines)

\* C14 amended: the above for the entries of depends, makedepends and
\* checkdepends; for an entry `dep: description` of optdepends the entry is
\* dropped when the name of dep should be skipped, and otherwise one line
\* is written, keyed by the mapped name, whose value is the array holding
\* the description, the constraint of dep being left out.
C14_DependencyLine ==
    /\ output.op = "emit_dependency" => LinePerClaim(input, output.lines)
    /\ (output.op = "emit_optional_dependency" /\ IsPlainOptional(input)) =>
         LET dep == before_colon(input)
             names == { NameOf(dep, r) : r \in Readings(dep) }
                          \cup { n \in { dep } : IsWord(n) }
         IN  \A name \in names :
               IF ShouldBeSkipped(name)
               THEN output.lines = << >>
               ELSE /\ output.lines =
                         << Line("array", Target(name), Stripped(after_colon(input))) >>
                    /\ output.lines[1].key # SKIP

\* `python<=2: a 1` of optdepends is written under the key python3 with
\* its description and without its constraint
C14_Witness ==
    /\ output.op = "emit_optional_dependency"
    /\ input = Python \o << "<", "=", "2", ":", " ", "a", " ", "1" >>
    /\ IsPlainOptional(input)
    /\ output.lines = << Line("array", Python \o << "3" >>, << "a", " ", "1" >>) >>

(***************************************************************************)
(* Variable expansion (convert/pkgbuild.rs).  A text handed to             *)
(* expand_variables is a sequence of pieces: "$", "{", "}", the syllables  *)
(* of the variable names ("pkg", "name", "base", "ver", "rel", "src",      *)
(* "dir") and a literal.  No piece is a prefix of another, so a pattern    *)
(* occurs in the characters of a text exactly where its pieces occur in    *)
(* the sequence.                                                           *)
(***************************************************************************)
\* longest text drawn from the pieces
MaxTextLen == 3

Var(a, b) == << "$", a, b >>
BracedVar(a, b) == << "$", "{", a, b, "}" >>

\* the pairs (pattern, value) of expand_variables in the order they are
\* applied; the value of the pkgbase patterns is self.pkgname
expansions(pkg) ==
    << << BracedVar("pkg", "name"), pkg.pkgname >>,
       << Var("pkg", "name"), pkg.pkgname >>,
       << BracedVar("pkg", "base"), pkg.pkgname >>,
       << Var("pkg", "base"), pkg.pkgname >>,
       << BracedVar("pkg", "ver"), pkg.pkgver >>,
       << Var("pkg", "ver"), pkg.pkgver >>,
       << BracedVar("pkg", "rel"), pkg.pkgrel >>,
       << Var("pkg", "rel"), pkg.pkgrel >>,
       << Var("src", "dir"), << "$", "ROOKPKG_BUILD" >> >>,
       << BracedVar("src", "dir"), << "$", "ROOKPKG_BUILD" >> >>,
       << Var("pkg", "dir"), << "$", "ROOKPKG_DESTDIR" >> >>,
       << BracedVar("pkg", "dir"), << "$", "ROOKPKG_DESTDIR" >> >> >>

\* result = result.replace(pattern, value), one pair after the other
RECURSIVE replace_each(_, _)
replace_each(pairs, text) ==
    IF pairs = << >> THEN text
    ELSE replace_each(Tail(pairs), replace(text, Head(pairs)[1], Head(pairs)[2]))

expand_variables(pkg, text) == replace_each(expansions(pkg), text)

(***************************************************************************)
(* The recipes and texts expansion is applied to.  A recipe is given by    *)
(* the fields populate_fields fills and the raw pkgbase variable.          *)
(***************************************************************************)
Scalars(pkgname, pkgver, pkgrel, pkgbase) ==
    [ pkgname |-> pkgname, pkgver |-> pkgver, pkgrel |-> pkgrel, pkgbase |-> pkgbase ]
ExpandRecipes ==
    { \* the recipe of test_expand_variables
      Scalars(<< "mypackage" >>, << "2.0.0" >>, << "1" >>, None),
      \* pkgbase=foo, pkgname=foo-bin
      Scalars(<< "foo", "-bin" >>, << "2.0.0" >>, << "1" >>, Some(<< "foo" >>)),
      \* pkgname=(foo foo-doc) with pkgbase=foo: the name is pkgbase
      Scalars(<< "foo" >>, << "2.0.0" >>, << "1" >>, Some(<< "foo" >>)),
      \* pkgname=$pkg, a value with a '$' of its own
      Scalars(<< "$", "pkg" >>, << "2.0.0" >>, << "1" >>, None) }

Pieces == { "$", "pkg", "name", "base", "ver", "rel", "src", "dir", "x" }
Texts ==
    UNION { [ 1..n -> Pieces ] : n \in 0..MaxTextLen }
        \cup { BracedVar(a, b) \o t : a \in { "pkg", "src" }, b \in { "name", "base", "ver", "rel", "dir" },
                                      t \in { << >>, << "x" >>, << "ver" >> } }
        \cup { \* cd $srcdir/${pkgname}-${pkgver}
               << "cd " >> \o Var("src", "dir") \o << "/" >> \o BracedVar("pkg", "name")
                   \o << "-" >> \o BracedVar("pkg", "ver"),
               \* DESTDIR="$pkgdir" make install
               << "DESTDIR=", "\"" >> \o Var("pkg", "dir") \o << "\"", " make install" >> }

ExpandInput(pkg, text) == [ pkg |-> pkg, text |-> text ]
ExpandOutput(op, cut, whole, left, right) ==
    [ op |-> op, cut |-> cut, whole |-> whole, left |-> left, right |-> right ]

ExpandInit ==
    /\ RepoInit
    /\ keyAvailable
    /\ query = NoQuery
    /\ found = Failed("")
    /\ DriverIdle
    /\ ParserIdle
    /\ input \in { ExpandInput(pkg, text) : pkg \in ExpandRecipes, text \in Texts }
    /\ output = ExpandOutput("pending", 0, << >>, << >>, << >>)

\* expand_variables applied to the text
ExpandVariables ==
    /\ output.op = "pending"
    /\ output' = ExpandOutput("whole", 0, expand_variables(input.pkg, input.text), << >>, << >>)
    /\ UNCHANGED << repoVars, query, found, driverVars, parserVars, input >>

\* expand_variables applied to the text and to the two parts the text is
\* cut into after its first `cut` pieces
ExpandParts(cut) ==
    /\ output.op = "pending"
    /\ output' = ExpandOutput("parts", cut, expand_variables(input.pkg, input.text),
                              expand_variables(input.pkg, SubSeq(input.text, 1, cut)),
                              expand_variables(input.pkg,
                                               SubSeq(input.text, cut + 1, Len(input.text))))
    /\ UNCHANGED << repoVars, query, found, driverVars, parserVars, input >>

ExpandNext ==
    \/ ExpandVariables
    \/ \E cut \in 0..Len(input.text) : ExpandParts(cut)

SpecExpand == ExpandInit /\ [][ExpandNext]_vars

(***************************************************************************)
(* Properties of variable expansion.                                       *)
(***************************************************************************)
\* the value the recipe gives each variable; pkgbase stands for pkgname
\* when the recipe does not assign it
ValueOf(pkg, b) ==
    CASE b = "name" -> pkg.pkgname
      [] b = "base" -> IF pkg.pkgbase.some THEN pkg.pkgbase.text ELSE pkg.pkgname
      [] b = "ver" -> pkg.pkgver
      [] b = "rel" -> pkg.pkgrel
\* the patterns and what the claim has each replaced by
Substitutions(pkg) ==
    { << Var("pkg", b), ValueOf(pkg, b) >> : b \in { "name", "base", "ver", "rel" } }
        \cup { << BracedVar("pkg", b), ValueOf(pkg, b) >> : b \in { "name", "base", "ver", "rel" } }
        \cup { << Var("src", "dir"), << "$", "ROOKPKG_BUILD" >> >>,
               << BracedVar("src", "dir"), << "$", "ROOKPKG_BUILD" >> >>,
               << Var("pkg", "dir"), << "$", "ROOKPKG_DESTDIR" >> >>,
               << BracedVar("pkg", "dir"), << "$", "ROOKPKG_DESTDIR" >> >> }
\* the text with every occurrence of a pattern replaced by its value and
\* nothing else changed
RECURSIVE Substituted(_, _)
Substituted(pkg, text) ==
    IF text = << >> THEN << >>
    ELSE LET here == { s \in Substitutions(pkg) : starts_with(text, s[1]) }
         IN  IF here = {}
             THEN << text[1] >> \o Substituted(pkg, Tail(text))
             ELSE LET s == CHOOSE s \in here : TRUE
                  IN  s[2] \o Substituted(pkg, SubSeq(text, Len(s[1]) + 1, Len(text)))

\* C17: expand_variables replaces every occurrence of ${pkgname}/$pkgname,
\* ${pkgbase}/$pkgbase, ${pkgver}/$pkgver, ${pkgrel}/$pkgrel by the recipe's
\* value of pkgname, pkgbase, pkgver, pkgrel, then $srcdir/${srcdir} by
\* $ROOKPKG_BUILD and $pkgdir/${pkgdir} by $ROOKPKG_DESTDIR, and changes
\* nothing else.
C17_ExpandReplacesEachVariable ==
    output.op = "whole" => output.whole = Substituted(input.pkg, input.text)

\* the patterns of expand_variables
Patterns ==
    { Var("pkg", b) : b \in { "name", "base", "ver", "rel", "dir" } }
        \cup { BracedVar("pkg", b) : b \in { "name", "base", "ver", "rel", "dir" } }
        \cup { Var("src", "dir"), BracedVar("src", "dir") }
\* an occurrence of a pattern in the text begins at or before the cut and
\* ends after it
Straddles(text, cut) ==
    \E p \in Patterns : \E i \in 1..Len(text) :
      /\ i <= cut
      /\ cut < i + Len(p) - 1
      /\ i + Len(p) - 1 <= Len(text)
      /\ SubSeq(text, i, i + Len(p) - 1) = p

\* C18: for every recipe, whatever its values, and every text cut in two
\* where no pattern of the text lies across the cut, expanding the text
\* gives the expansion of the first part followed by the expansion of the
\* second.
C18_ExpandCommutesWithConcat ==
    (output.op = "parts" /\ ~Straddles(input.text, output.cut)) =>
      output.whole = output.left \o output.right

(***************************************************************************)
(* The emitter (convert/arch.rs, pkgbuild_to_rook).  The document is the   *)
(* sequence of its lines; a line that assigns a key carries the key and    *)
(* the text written between the quotes of its value, both as sequences of  *)
(* characters or longer pieces of text, the quote, the backslash and the   *)
(* newline always being pieces of their own.                               *)
(***************************************************************************)
Header(name) == Line("header", << name >>, << >>)
Blank == Line("blank", << >>, << >>)
Banner == Line("comment", << >>, << "CONVERTED FROM ARCH LINUX PKGBUILD - REVIEW REQUIRED" >>)

\* Pkgbuild::version
version(pkg) == IF pkg.epoch.some THEN pkg.epoch.text \o << ":" >> \o pkg.pkgver ELSE pkg.pkgver

Digits == { "0", "1", "2", "3", "4", "5", "6", "7", "8", "9" }
RECURSIVE strip_zeros(_)
strip_zeros(s) == IF Len(s) > 1 /\ s[1] = "0" THEN strip_zeros(Tail(s)) ELSE s

\* Pkgbuild::release, as the emitter prints it: pkgrel when it is an
\* unsigned number (none of the sample is too large for u32), 1 otherwise
release(pkg) ==
    IF pkg.pkgrel # << >> /\ \A i \in 1..Len(pkg.pkgrel) : pkg.pkgrel[i] \in Digits
    THEN strip_zeros(pkg.pkgrel)
    ELSE << "1" >>

\* Pkgbuild::checksums
checksums(pkg) ==
    IF pkg.sha256sums # << >> THEN pkg.sha256sums
    ELSE IF pkg.sha512sums # << >> THEN pkg.sha512sums
    ELSE IF pkg.b2sums # << >> THEN pkg.b2sums
    ELSE pkg.md5sums

\* str::join of a list with a separator
RECURSIVE join(_, _)
join(list, sep) ==
    IF list = << >> THEN << >>
    ELSE IF Len(list) = 1 THEN list[1]
    ELSE list[1] \o sep \o join(Tail(list), sep)

NeedsChecksum == << "_NEEDS_CHECKSUM_RUN_rookpkg_checksum_update_" >>
SourceKeys == << "source0", "source1", "source2" >>

\* the line of a source with its checksum as it is, or empty
source_line_ChecksumVerbatim(pkg, i) ==
    LET sums == checksums(pkg)
    IN  [ kind |-> "source", key |-> << SourceKeys[i + 1] >>,
          value |-> expand_variables(pkg, pkg.source[i + 1]),
          sha256 |-> IF i + 1 <= Len(sums) THEN sums[i + 1] ELSE << >> ]

\* the line `sourceN = { url = "...", sha256 = "..." }` of the i-th source,
\* i counted from 0
source_line(pkg, i) ==
    LET sums == checksums(pkg)
        checksum == IF i + 1 <= Len(sums) THEN sums[i + 1] ELSE << >>
    IN  [ kind |-> "source", key |-> << SourceKeys[i + 1] >>,
          value |-> expand_variables(pkg, pkg.source[i + 1]),
          sha256 |-> IF checksum = << "SKIP" >> \/ checksum = << >>
                     THEN NeedsChecksum ELSE checksum ]

RECURSIVE dependency_lines(_)
dependency_lines(deps) ==
    IF deps = << >> THEN << >>
    ELSE emit_dependency(Head(deps)) \o dependency_lines(Tail(deps))

RECURSIVE optional_dependency_lines(_)
optional_dependency_lines(deps) ==
    IF deps = << >> THEN << >>
    ELSE emit_optional_dependency(Head(deps)) \o optional_dependency_lines(Tail(deps))

\* the line `key = """ ... """` of a build phase
phase_line(pkg, key, func) ==
    IF func.some
    THEN << Line("multiline", << key >>, expand_variables(pkg, func.text)), Blank >>
    ELSE << Line("multiline", << key >>, << >>), Blank >>

package_section(pkg) ==
    << Header("package"),
       Line("string", << "name" >>, map_package_name(pkg.pkgname)),
       Line("string", << "version" >>, version(pkg)),
       Line("integer", << "release" >>, release(pkg)),
       Line("string", << "summary" >>, escape_toml_string(pkg.pkgdesc)),
       Line("multiline", << "description" >>, escape_toml_string(pkg.pkgdesc)) >>
    \o (IF pkg.url # << >> THEN << Line("string", << "homepage" >>, pkg.url) >> ELSE << >>)
    \o (IF pkg.license # << >>
        THEN << Line("string", << "license" >>, join(pkg.license, << " AND " >>)) >>
        ELSE << >>)
    \o << Line("string", << "maintainer" >>,
               << "Converted from Arch Linux <converted@rookeryos.dev>" >>),
          Line("string", << "arch" >>, << "x86_64" >>),
          Blank >>

sources_section(pkg) ==
    IF pkg.source # << >>
    THEN << Header("sources") >>
         \o [ i \in 1..Len(pkg.source) |-> source_line(pkg, i - 1) ]
         \o << Blank >>
    ELSE << >>

build_depends_section(pkg) ==
    IF pkg.makedepends # << >> \/ pkg.checkdepends # << >>
    THEN << Header("build_depends") >>
         \o dependency_lines(pkg.makedepends)
         \o dependency_lines(pkg.checkdepends)
         \o << Blank >>
    ELSE << >>

depends_section(pkg) ==
    IF pkg.depends # << >>
    THEN << Header("depends") >> \o dependency_lines(pkg.depends) \o << Blank >>
    ELSE << >>

optional_depends_section(pkg) ==
    IF pkg.optdepends # << >>
    THEN << Header("optional_depends") >>
         \o optional_dependency_lines(pkg.optdepends) \o << Blank >>
    ELSE << >>

build_section(pkg) ==
    << Header("build") >>
    \o phase_line(pkg, "prep", pkg.prepare_func)
    \o << Line("multiline", << "configure" >>, << >>), Blank >>
    \o phase_line(pkg, "build", pkg.build_func)
    \o phase_line(pkg, "check", pkg.check_func)
    \o phase_line(pkg, "install", pkg.package_func)

config_files_section(pkg) ==
    << Header("config_files") >>
    \o [ i \in 1..Len(pkg.backup) |-> Line("quoted_key_table", pkg.backup[i], << >>) ]
    \o << Blank >>

pkgbuild_to_rook(pkg) ==
    package_section(pkg)
    \o sources_section(pkg)
    \o << Header("patches"), Blank >>
    \o build_depends_section(pkg)
    \o depends_section(pkg)
    \o optional_depends_section(pkg)
    \o << Header("environment"), Blank >>
    \o build_section(pkg)
    \o << Header("files"), Blank >>
    \o config_files_section(pkg)
    \o << Header("scripts"), Blank, Banner >>

(***************************************************************************)
(* The recipes handed to the emitter.  Each is what Pkgbuild::parse        *)
(* returns for the PKGBUILD that assigns the values shown, the lists with  *)
(* one quoted element for each entry.                                      *)
(***************************************************************************)
Cmake == << "c", "m", "a", "k", "e" >>
Ninja == << "n", "i", "n", "j", "a" >>
Openssl == << "o", "p", "e", "n", "s", "s", "l" >>
\* cd "$srcdir/$pkgname-$pkgver" and make
BuildBody ==
    << "    cd ", "\"" >> \o Var("src", "dir") \o << "/" >> \o Var("pkg", "name") \o << "-" >>
        \o Var("pkg", "ver") \o << "\"", "\n", "    make" >>
\* sed -i 's/\(a\)/\1/' Makefile
SedBody == << "    sed -i 's/", "\\", "(", "a", "\\", ")", "/", "\\", "1", "/' Makefile" >>
\* make DESTDIR="$pkgdir" install
PackageBody == << "    make DESTDIR=", "\"" >> \o Var("pkg", "dir") \o << "\"", " install" >>
SourceUrl == << "https://example.com/" >> \o BracedVar("pkg", "name") \o << "-" >>
                 \o BracedVar("pkg", "ver") \o << ".tar.gz" >>
SourceChoices ==
    { << << >>, << >> >>,
      << << SourceUrl >>, << << "abc123def456" >> >> >>,
      << << SourceUrl >>, << << "SKIP" >> >> >>,
      << << SourceUrl, << "fix.patch" >> >>, << << "abc123def456" >> >> >>,
      << << << "fix.patch" >>, SourceUrl >>, << << >>, << "abc123def456" >> >> >> }

EmitRecipes ==
    { [ pkgname |-> Python, pkgver |-> << "2.0.0" >>, pkgrel |-> << "1" >>, epoch |-> None,
        pkgbase |-> None, pkgdesc |-> d, url |-> u, license |-> l,
        source |-> s[1], sha256sums |-> s[2], sha512sums |-> << >>, b2sums |-> << >>,
        md5sums |-> << >>, makedepends |-> md, checkdepends |-> cd, depends |-> dp,
        optdepends |-> od, prepare_func |-> None, build_func |-> bf, check_func |-> None,
        package_func |-> pf, backup |-> bk ] :
        d \in { << "An example package" >>, << "say ", "\"", "hi", "\"" >> },
        u \in { << >>, << "https://example.com" >> },
        l \in { << >>, << << "MIT" >> >>, << << "MIT" >>, << "Apache-2.0" >> >> },
        s \in SourceChoices,
        md \in { << >>, << Cmake >>, << Cmake, Ninja >> },
        cd \in { << >>, << Cmake >>, << Ninja \o << ">", "=", "1" >> >> },
        dp \in { << >>, << Glibc >>, << Glibc, Openssl \o << ">", "=", "3" >> >> },
        od \in { << >>, << Python \o << ":", " ", "f", "o", "r", " ", "x" >> >> },
        bf \in { None, Some(BuildBody), Some(SedBody) },
        pf \in { None, Some(PackageBody) },
        bk \in { << >>, << << "etc/example.conf" >> >> } }

EmitOutput(op, doc) == [ op |-> op, doc |-> doc ]

EmitInit ==
    /\ RepoInit
    /\ keyAvailable
    /\ query = NoQuery
    /\ found = Failed("")
    /\ DriverIdle
    /\ ParserIdle
    /\ input \in EmitRecipes
    /\ output = EmitOutput("pending", << >>)

PkgbuildToRook ==
    /\ output.op = "pending"
    /\ output' = EmitOutput("pkgbuild_to_rook", pkgbuild_to_rook(input))
    /\ UNCHANGED << repoVars, query, found, driverVars, parserVars, input >>

EmitNext == PkgbuildToRook

SpecEmit == EmitInit /\ [][EmitNext]_vars

(***************************************************************************)
(* Properties of the emitted document.                                     *)
(***************************************************************************)
IsHeader(line) == line.kind = "header"
SectionNames(doc) ==
    LET headers == SelectSeq(doc, IsHeader)
    IN  [ i \in 1..Len(headers) |-> headers[i].key[1] ]

\* C15: the emitted document has each of the eleven section headers once,
\* in the fixed order, whatever the recipe; a section without content is
\* written as its header alone.
C15_ElevenSectionsInOrder ==
    output.op = "pkgbuild_to_rook" =>
      SectionNames(output.doc) =
        << "package", "sources", "patches", "build_depends", "depends",
           "optional_depends", "environment", "build", "files", "config_files",
           "scripts" >>

\* the lines that assign a key
AssignsKey(line) == line.kind \notin { "header", "blank", "comment" }
\* lines i and j are in the same table
SameTable(doc, i, j) == \A k \in (i + 1)..j : ~IsHeader(doc[k])
NoDuplicateKeys(doc) ==
    \A i, j \in 1..Len(doc) :
      (i < j /\ AssignsKey(doc[i]) /\ AssignsKey(doc[j]) /\ SameTable(doc, i, j)) =>
        doc[i].key # doc[j].key

\* the keys the emitter writes itself, and the characters of a bare key
\* that occur in the names of the sample
FixedKeys ==
    { "name", "version", "release", "summary", "description", "homepage", "license",
      "maintainer", "arch", "prep", "configure", "build", "check", "install" }
        \cup { SourceKeys[i] : i \in 1..Len(SourceKeys) }
BareKeyCharacters ==
    { "a", "b", "c", "d", "e", "f", "g", "h", "i", "j", "k", "l", "m", "n", "o", "p", "q",
      "r", "s", "t", "u", "v", "w", "x", "y", "z", "-", "_" } \cup Digits
IsBareKey(key) ==
    /\ key # << >>
    /\ \/ Len(key) = 1 /\ key[1] \in FixedKeys
       \/ \A i \in 1..Len(key) : key[i] \in BareKeyCharacters

\* the text between the quotes of a basic string: no bare quote, no bare
\* newline, and after a backslash one of the escapes
Escapes == { "\\", "\"", "n", "r", "t", "b", "f" }
RECURSIVE IsBasicString(_)
IsBasicString(s) ==
    IF s = << >> THEN TRUE
    ELSE IF s[1] \in { "\"", "\n" } THEN FALSE
    ELSE IF s[1] = "\\"
    THEN Len(s) >= 2 /\ s[2] \in Escapes /\ IsBasicString(SubSeq(s, 3, Len(s)))
    ELSE IsBasicString(Tail(s))
\* the text between the triple quotes of a multi-line string: no three
\* quotes in a row, and after a backslash an escape or the end of the line
RECURSIVE IsMultilineString(_)
IsMultilineString(s) ==
    IF s = << >> THEN TRUE
    ELSE IF Len(s) >= 3 /\ SubSeq(s, 1, 3) = << "\"", "\"", "\"" >> THEN FALSE
    ELSE IF s[1] = "\\"
    THEN Len(s) >= 2 /\ s[2] \in Escapes \cup { "\n" }
           /\ IsMultilineString(SubSeq(s, 3, Len(s)))
    ELSE IsMultilineString(Tail(s))

WellFormedLine(line) ==
    CASE line.kind \in { "string", "array" } -> IsBareKey(line.key) /\ IsBasicString(line.value)
      [] line.kind = "integer" -> IsBareKey(line.key)
      [] line.kind = "multiline" -> IsBareKey(line.key) /\ IsMultilineString(line.value)
      [] line.kind = "source" ->
           IsBareKey(line.key) /\ IsBasicString(line.value) /\ IsBasicString(line.sha256)
      [] line.kind = "quoted_key_table" -> IsBasicString(line.key)
      [] OTHER -> TRUE

\* C16: the emitted document is well-formed TOML: no key twice in one
\* table, every key a valid key, every string terminated and escaped.
C16_EmittedTomlWellFormed ==
    output.op = "pkgbuild_to_rook" =>
      /\ NoDuplicateKeys(output.doc)
      /\ \A i \in 1..Len(output.doc) : WellFormedLine(output.doc[i])

\* the source URL of the recipes with its variables replaced
ExpandedSourceUrl == << "https://example.com/" >> \o Python \o << "-", "2.0.0", ".tar.gz" >>
ExpandedSource(url) == IF url = SourceUrl THEN ExpandedSourceUrl ELSE url

IsSourceLine(line) == line.kind = "source"

\* C29: for a recipe with n sources the document has the entries source0 ..
\* source(n-1) in source order; entry i carries the i-th source URL with its
\* variables expanded and, as sha256, the i-th element of checksums(), or
\* the placeholder when that element is empty, is SKIP, or does not exist
\* because the checksum list is shorter than the source list.
C29_SourcesWithChecksumsByIndex ==
    output.op = "pkgbuild_to_rook" =>
      LET written == SelectSeq(output.doc, IsSourceLine)
          sums == checksums(input)
      IN  /\ Len(written) = Len(input.source)
          /\ \A i \in 1..Len(written) :
                /\ written[i].key = << SourceKeys[i] >>
                /\ written[i].value = ExpandedSource(input.source[i])
                /\ written[i].sha256 =
                      IF i > Len(sums) \/ sums[i] = << >> \/ sums[i] = << "SKIP" >>
                      THEN NeedsChecksum
                      ELSE sums[i]

\* two sources and one checksum: the second source carries the placeholder
C29_Witness ==
    /\ output.op = "pkgbuild_to_rook"
    /\ input.source = << SourceUrl, << "fix.patch" >> >>
    /\ Len(checksums(input)) = 1
    /\ \E i \in 1..Len(output.doc) :
         /\ output.doc[i].key = << "source1" >>
         /\ output.doc[i].value = << "fix.patch" >>
         /\ output.doc[i].sha256 = NeedsChecksum

(***************************************************************************)
(* The recipe parser (convert/pkgbuild.rs): the variable pass, one step    *)
(* for each line, and the population of the typed fields.  A line is a     *)
(* sequence of characters, except that the identifier an assignment        *)
(* begins with is one piece.                                               *)
(***************************************************************************)
\* most items (elements, parentheses, comments, line breaks) of an array body
MaxItems == 3

Identifiers ==
    { "pkgname", "pkgbase", "pkgver", "pkgrel", "epoch", "pkgdesc", "url", "license",
      "depends", "makedepends", "checkdepends", "optdepends", "source", "sha256sums",
      "sha512sums", "b2sums", "md5sums", "backup" }

\* the loop of parse_array_elements over the characters still to read
RECURSIVE scan_elements(_, _, _, _, _)
scan_elements(line, elements, current, in_quotes, quote_char) ==
    LET pushed == IF current # << >> THEN Append(elements, current) ELSE elements
    IN  IF line = << >> THEN pushed
        ELSE LET c == Head(line)
             IN  IF c \in { "\"", "'" } /\ ~in_quotes
                 THEN scan_elements(Tail(line), elements, current, TRUE, c)
                 ELSE IF in_quotes /\ c = quote_char
                 THEN scan_elements(Tail(line), pushed, << >>, FALSE, quote_char)
                 ELSE IF c = ")" /\ ~in_quotes THEN pushed
                 ELSE IF c \in { " ", "\t" } /\ ~in_quotes
                 THEN scan_elements(Tail(line), pushed, << >>, in_quotes, quote_char)
                 ELSE IF c = "#" /\ ~in_quotes THEN pushed
                 ELSE IF c = "(" /\ ~in_quotes
                 THEN scan_elements(Tail(line), elements, current, in_quotes, quote_char)
                 ELSE scan_elements(Tail(line), elements, Append(current, c), in_quotes,
                                    quote_char)

parse_array_elements(line) == scan_elements(line, << >>, << >>, FALSE, " ")

\* the end-of-array test of extract_variables
array_ends(text) == find(text, << ")" >>) # 0 /\ find(text, << "$", "(" >>) = 0

\* the function-definition test of extract_variables
is_function_line(trimmed) == find(trimmed, << "(", ")" >>) # 0 /\ find(trimmed, << "{" >>) # 0

\* array_start_re and simple_var_re
is_array_start(trimmed) ==
    Len(trimmed) >= 3 /\ trimmed[1] \in Identifiers /\ trimmed[2] = "=" /\ trimmed[3] = "("
is_simple_var(trimmed) ==
    Len(trimmed) >= 3 /\ trimmed[1] \in Identifiers /\ trimmed[2] = "=" /\ trimmed[3] # "("

\* strip_quotes slices trimmed[1..len-1], which panics when the value is a
\* lone quote character
strip_quotes_panics(value) == Len(trim(value)) = 1 /\ trim(value)[1] \in { "\"", "'" }
strip_quotes(value) ==
    LET trimmed == trim(value)
    IN  IF \/ trimmed[1] = "\"" /\ trimmed[Len(trimmed)] = "\""
           \/ trimmed[1] = "'" /\ trimmed[Len(trimmed)] = "'"
        THEN SubSeq(trimmed, 2, Len(trimmed) - 1)
        ELSE trimmed

\* HashMap::insert
insert(map, key, value) ==
    [ k \in DOMAIN map \cup { key } |-> IF k = key THEN value ELSE map[k] ]

\* str::lines: the text split at its newlines, a carriage return before a
\* newline and an empty last line dropped
RECURSIVE str_lines(_)
str_lines(s) ==
    IF s = << >> THEN << >>
    ELSE LET nl == find(s, << "\n" >>)
             first == IF nl = 0 THEN s ELSE SubSeq(s, 1, nl - 1)
             line == IF first # << >> /\ first[Len(first)] = "\r"
                     THEN SubSeq(first, 1, Len(first) - 1) ELSE first
         IN  IF nl = 0 THEN << line >>
             ELSE << line >> \o str_lines(SubSeq(s, nl + 1, Len(s)))

get_str(vars_, key) == IF key \in DOMAIN vars_ THEN vars_[key] ELSE << >>
get_array(vars_, key) == IF key \in DOMAIN vars_ THEN str_lines(vars_[key]) ELSE << >>
get(vars_, key) == IF key \in DOMAIN vars_ THEN Some(vars_[key]) ELSE None

\* Pkgbuild::default, with the fields the emitter and expand_variables read
\* and the raw pkgbase
Pkgbuild_default ==
    [ pkgname |-> << >>, pkgver |-> << >>, pkgrel |-> << >>, epoch |-> None,
      pkgbase |-> None, pkgdesc |-> << >>, url |-> << >>, license |-> << >>,
      depends |-> << >>, makedepends |-> << >>, checkdepends |-> << >>,
      optdepends |-> << >>, source |-> << >>, sha256sums |-> << >>,
      sha512sums |-> << >>, b2sums |-> << >>, md5sums |-> << >>, backup |-> << >>,
      prepare_func |-> None, build_func |-> None, check_func |-> None,
      package_func |-> None, package_funcs |-> NoVariables ]

\* the name populate_fields gives a split recipe when pkgbase plays no part
populate_fields_FirstName(pkg, vars_) ==
    LET raw_pkgname == get_str(vars_, "pkgname")
    IN  [ pkg EXCEPT
          !.pkgname = IF find(raw_pkgname, << "\n" >>) # 0
                      THEN str_lines(raw_pkgname)[1]
                      ELSE raw_pkgname,
          !.pkgver = get_str(vars_, "pkgver"),
          !.pkgrel = get_str(vars_, "pkgrel"),
          !.epoch = get(vars_, "epoch"),
          !.pkgbase = get(vars_, "pkgbase"),
          !.pkgdesc = get_str(vars_, "pkgdesc"),
          !.url = get_str(vars_, "url"),
          !.license = get_array(vars_, "license"),
          !.depends = get_array(vars_, "depends"),
          !.makedepends = get_array(vars_, "makedepends"),
          !.checkdepends = get_array(vars_, "checkdepends"),
          !.optdepends = get_array(vars_, "optdepends"),
          !.source = get_array(vars_, "source"),
          !.sha256sums = get_array(vars_, "sha256sums"),
          !.sha512sums = get_array(vars_, "sha512sums"),
          !.b2sums = get_array(vars_, "b2sums"),
          !.md5sums = get_array(vars_, "md5sums"),
          !.backup = get_array(vars_, "backup") ]

\* populate_fields: the typed fields are filled from the raw variables, the
\* function bodies stay as the function pass left them
populate_fields(pkg, vars_) ==
    LET raw_pkgname == get_str(vars_, "pkgname")
    IN  [ pkg EXCEPT
          !.pkgname = IF find(raw_pkgname, << "\n" >>) # 0
                      THEN IF "pkgbase" \in DOMAIN vars_ THEN vars_["pkgbase"]
                           ELSE str_lines(raw_pkgname)[1]
                      ELSE raw_pkgname,
          !.pkgver = get_str(vars_, "pkgver"),
          !.pkgrel = get_str(vars_, "pkgrel"),
          !.epoch = get(vars_, "epoch"),
          !.pkgbase = get(vars_, "pkgbase"),
          !.pkgdesc = get_str(vars_, "pkgdesc"),
          !.url = get_str(vars_, "url"),
          !.license = get_array(vars_, "license"),
          !.depends = get_array(vars_, "depends"),
          !.makedepends = get_array(vars_, "makedepends"),
          !.checkdepends = get_array(vars_, "checkdepends"),
          !.optdepends = get_array(vars_, "optdepends"),
          !.source = get_array(vars_, "source"),
          !.sha256sums = get_array(vars_, "sha256sums"),
          !.sha512sums = get_array(vars_, "sha512sums"),
          !.b2sums = get_array(vars_, "b2sums"),
          !.md5sums = get_array(vars_, "md5sums"),
          !.backup = get_array(vars_, "backup") ]

ParseOutput(op, pkg) == [ op |-> op, pkg |-> pkg ]

\* one iteration of the loop of extract_variables
ReadLine ==
    /\ output.op = "pending"
    /\ content # << >>
    /\ content' = Tail(content)
    /\ LET trimmed == trim(Head(content))
       IN  IF ~in_array /\ (trimmed = << >> \/ trimmed[1] = "#")
           THEN UNCHANGED << in_array, current_var, current_array, raw_variables, output >>
           ELSE IF is_function_line(trimmed)
           THEN UNCHANGED << in_array, current_var, current_array, raw_variables, output >>
           ELSE IF in_array
           THEN LET collected == current_array \o parse_array_elements(trimmed)
                IN  IF array_ends(trimmed)
                    THEN /\ raw_variables' =
                              insert(raw_variables, current_var, join(collected, << "\n" >>))
                         /\ current_var' = ""
                         /\ current_array' = << >>
                         /\ in_array' = FALSE
                         /\ UNCHANGED output
                    ELSE /\ current_array' = collected
                         /\ UNCHANGED << in_array, current_var, raw_variables, output >>
           ELSE IF is_array_start(trimmed)
           THEN LET rest == SubSeq(trimmed, 4, Len(trimmed))
                    collected == parse_array_elements(rest)
                IN  IF array_ends(rest)
                    THEN /\ raw_variables' =
                              insert(raw_variables, trimmed[1], join(collected, << "\n" >>))
                         /\ current_var' = ""
                         /\ current_array' = << >>
                         /\ in_array' = FALSE
                         /\ UNCHANGED output
                    ELSE /\ current_var' = trimmed[1]
                         /\ current_array' = collected
                         /\ in_array' = TRUE
                         /\ UNCHANGED << raw_variables, output >>
           ELSE IF is_simple_var(trimmed)
           THEN LET value == SubSeq(trimmed, 3, Len(trimmed))
                IN  IF strip_quotes_panics(value)
                    THEN /\ output' = ParseOutput("panic", output.pkg)
                         /\ UNCHANGED << in_array, current_var, current_array, raw_variables >>
                    ELSE /\ raw_variables' = insert(raw_variables, trimmed[1], strip_quotes(value))
                         /\ UNCHANGED << in_array, current_var, current_array, output >>
           ELSE UNCHANGED << in_array, current_var, current_array, raw_variables, output >>
    /\ UNCHANGED input

\* the names of the functions of the texts
FunctionNames == { "prepare", "build", "check", "package", "package_foo", "helper" }

RECURSIVE skip_blanks(_)
skip_blanks(s) == IF s # << >> /\ s[1] = " " THEN skip_blanks(Tail(s)) ELSE s

\* func_re: an identifier, `(`, `)` and `{` with optional blanks between them
is_function_header(line) ==
    /\ line # << >>
    /\ line[1] \in FunctionNames \cup Identifiers
    /\ LET opening == skip_blanks(Tail(line))
       IN  /\ opening # << >>
           /\ opening[1] = "("
           /\ LET closing == skip_blanks(Tail(opening))
              IN  /\ closing # << >>
                  /\ closing[1] = ")"
                  /\ LET brace == skip_blanks(Tail(closing))
                     IN  brace # << >> /\ brace[1] = "{"

\* the number of times the character c is written in the line
occurrences(line, c) == Cardinality({ i \in 1..Len(line) : line[i] = c })

\* the body without its last line when that line is a lone `}`
without_closing_brace(body) ==
    IF body # << >> /\ trim(body[Len(body)]) = << "}" >>
    THEN SubSeq(body, 1, Len(body) - 1)
    ELSE body

\* the loop of extract_function_body at line i, lines counted from 1
RECURSIVE scan_body(_, _, _, _, _, _)
scan_body(lines, start, i, body, brace_count, started) ==
    IF i > Len(lines)
    THEN [ body |-> join(body, << "\n" >>), end_idx |-> Len(lines) ]
    ELSE LET counted == brace_count + occurrences(lines[i], "{") - occurrences(lines[i], "}")
             begun == started \/ occurrences(lines[i], "{") > 0
             pushed == IF begun /\ i > start THEN Append(body, lines[i]) ELSE body
         IN  IF begun /\ counted = 0
             THEN [ body |-> join(without_closing_brace(pushed), << "\n" >>), end_idx |-> i ]
             ELSE scan_body(lines, start, i + 1, pushed, counted, begun)

\* the body of every function is its header line alone
extract_function_body_HeaderOnly(lines, start) == [ body |-> << >>, end_idx |-> start ]

extract_function_body(lines, start) == scan_body(lines, start, start, << >>, 0, FALSE)

\* Pkgbuild::parse calls extract_functions on the text once the variable
\* pass has read every line; the locals of the variable pass are gone
ExtractFunctionsBegin ==
    /\ output.op = "pending"
    /\ content = << >>
    /\ output' = ParseOutput("functions", output.pkg)
    /\ content' = input
    /\ in_array' = FALSE
    /\ current_var' = ""
    /\ current_array' = << >>
    /\ UNCHANGED << input, raw_variables >>

\* one iteration of the loop of extract_functions; content holds the lines
\* from index i on
ExtractFunction ==
    /\ output.op = "functions"
    /\ content # << >>
    /\ LET line == trim(Head(content))
           func_name == line[1]
           extracted == extract_function_body(content, 1)
           body == extracted.body
       IN  IF is_function_header(line)
           THEN /\ content' = SubSeq(content, extracted.end_idx + 1, Len(content))
                /\ IF func_name = "prepare"
                   THEN /\ output' = [ output EXCEPT !.pkg.prepare_func = Some(body) ]
                        /\ UNCHANGED raw_variables
                   ELSE IF func_name = "build"
                   THEN /\ output' = [ output EXCEPT !.pkg.build_func = Some(body) ]
                        /\ UNCHANGED raw_variables
                   ELSE IF func_name = "check"
                   THEN /\ output' = [ output EXCEPT !.pkg.check_func = Some(body) ]
                        /\ UNCHANGED raw_variables
                   ELSE IF func_name = "package"
                   THEN /\ output' = [ output EXCEPT !.pkg.package_func = Some(body) ]
                        /\ UNCHANGED raw_variables
                   ELSE IF Len(func_name) >= 8 /\ SubSeq(func_name, 1, 8) = "package_"
                   THEN /\ output' =
                             [ output EXCEPT !.pkg.package_funcs =
                                   insert(@, SubSeq(func_name, 9, Len(func_name)), body) ]
                        /\ UNCHANGED raw_variables
                   ELSE /\ raw_variables' = insert(raw_variables, "func_" \o func_name, body)
                        /\ UNCHANGED output
           ELSE /\ content' = Tail(content)
                /\ UNCHANGED << output, raw_variables >>
    /\ UNCHANGED << input, in_array, current_var, current_array >>

\* the rest of Pkgbuild::parse once the function pass has read every line
PopulateFields ==
    /\ output.op = "functions"
    /\ content = << >>
    /\ output' = ParseOutput("parse", populate_fields(output.pkg, raw_variables))
    /\ UNCHANGED << input, parserVars >>

(***************************************************************************)
(* The texts that are parsed: `optdepends=(`, then up to MaxItems items,   *)
(* each an element, a parenthesis, a comment or a line break, separated by *)
(* blanks, then the line `pkgrel=1`.                                       *)
(***************************************************************************)
LineBreak == << "\n" >>
ArrayItems ==
    { << "a" >>,                                 \* a
      << "'", "a", " ", "b", "'" >>,             \* 'a b'
      << "\"", "b", "\"" >>,                     \* "b"
      << "'", "a", " ", "(", "b", ")", "'" >>,   \* 'a (b)'
      << "$", "(", "a", ")" >>,                  \* $(a)
      << ")" >>,                                 \* )
      << "#", "c" >>,                            \* #c
      << "'", "'" >>,                            \* ''
      << "b", ")" >>,                            \* b)
      LineBreak }
ArrayBodies == UNION { [ 1..n -> ArrayItems ] : n \in 0..MaxItems }

\* the characters of a body, its items separated by blanks
RECURSIVE body_text(_)
body_text(items) ==
    IF items = << >> THEN << >>
    ELSE IF Len(items) = 1 THEN items[1]
    ELSE IF items[1] = LineBreak \/ items[2] = LineBreak
    THEN items[1] \o body_text(Tail(items))
    ELSE items[1] \o << " " >> \o body_text(Tail(items))

\* str::lines of the text, every line kept
RECURSIVE split_lines(_)
split_lines(s) ==
    IF find(s, LineBreak) = 0 THEN << s >>
    ELSE << SubSeq(s, 1, find(s, LineBreak) - 1) >>
           \o split_lines(SubSeq(s, find(s, LineBreak) + 1, Len(s)))

PkgbuildText(body) ==
    LET array_lines == split_lines(body_text(body))
    IN  << << "optdepends", "=", "(" >> \o array_lines[1] >>
           \o Tail(array_lines)
           \o << << "pkgrel", "=", "1" >> >>

ParserInit ==
    /\ RepoInit
    /\ keyAvailable
    /\ query = NoQuery
    /\ found = Failed("")
    /\ DriverIdle
    /\ input \in { PkgbuildText(body) : body \in ArrayBodies }
    /\ output = ParseOutput("pending", Pkgbuild_default)
    /\ content = input
    /\ in_array = FALSE
    /\ current_var = ""
    /\ current_array = << >>
    /\ raw_variables = NoVariables

ParserNext ==
    \/ ReadLine /\ UNCHANGED << repoVars, query, found, driverVars >>
    \/ ExtractFunctionsBegin /\ UNCHANGED << repoVars, query, found, driverVars >>
    \/ ExtractFunction /\ UNCHANGED << repoVars, query, found, driverVars >>
    \/ PopulateFields /\ UNCHANGED << repoVars, query, found, driverVars >>

SpecParser == ParserInit /\ [][ParserNext]_vars

(***************************************************************************)
(* Where an array ends and what its elements are, read off the array's     *)
(* text: quotes open and close regions, `$(` opens a command substitution  *)
(* that the next `)` outside quotes closes.                                *)
(***************************************************************************)
\* a `)` of the line lies outside every quoted region and every `$(...)`
RECURSIVE HasClosingParen(_, _, _)
HasClosingParen(line, quote, depth) ==
    IF line = << >> THEN FALSE
    ELSE LET c == Head(line)
         IN  IF quote # "" THEN HasClosingParen(Tail(line), IF c = quote THEN "" ELSE quote, depth)
             ELSE IF c \in { "\"", "'" } THEN HasClosingParen(Tail(line), c, depth)
             ELSE IF c = "$" /\ Len(line) >= 2 /\ line[2] = "("
             THEN HasClosingParen(Tail(Tail(line)), quote, depth + 1)
             ELSE IF c = ")" /\ depth > 0 THEN HasClosingParen(Tail(line), quote, depth - 1)
             ELSE IF c = ")" THEN TRUE
             ELSE HasClosingParen(Tail(line), quote, depth)

ClosesArray(line) == HasClosingParen(line, "", 0)

\* the line the variable pass reads next, and the part of it that belongs
\* to an array: all of it inside an array, what follows `ident=(` on the
\* line that opens one
NextLine == trim(Head(content))
ArrayPart ==
    IF in_array THEN NextLine ELSE SubSeq(NextLine, 4, Len(NextLine))
ReadsArrayLine ==
    /\ output.op = "pending"
    /\ content # << >>
    /\ in_array \/ is_array_start(NextLine)

\* C19: from the line ident=( on, the variable pass is collecting the array
\* after a line exactly when that line has no ')' outside a $(...) command
\* substitution and outside a quoted region; a ')' inside a quoted element
\* leaves the array open for the lines that follow.
C19_ArrayOpenUntilUnquotedParen ==
    [][ReadsArrayLine /\ content' = Tail(content)
           => (in_array' <=> ~ClosesArray(ArrayPart))]_vars

\* the elements of one line: blank-separated tokens and quoted spans without
\* their quotes, up to an unquoted `#` or `)`, nothing for `(` and for ''
RECURSIVE ElementsOf(_, _, _, _)
ElementsOf(line, quote, token, elements) ==
    LET ended == IF token = << >> THEN elements ELSE Append(elements, token)
    IN  IF line = << >> THEN ended
        ELSE LET c == Head(line)
             IN  IF quote # ""
                 THEN IF c = quote THEN ElementsOf(Tail(line), "", << >>, ended)
                      ELSE ElementsOf(Tail(line), quote, Append(token, c), elements)
                 ELSE IF c \in { "\"", "'" } THEN ElementsOf(Tail(line), c, token, elements)
                 ELSE IF c \in { "#", ")" } THEN ended
                 ELSE IF c \in { " ", "\t" } THEN ElementsOf(Tail(line), "", << >>, ended)
                 ELSE IF c = "(" THEN ElementsOf(Tail(line), "", token, elements)
                 ELSE ElementsOf(Tail(line), "", Append(token, c), elements)

\* the elements of the array that opens the text, line after line up to the
\* line that closes it
RECURSIVE ArrayElements(_)
ArrayElements(lines) ==
    IF lines = << >> THEN << >>
    ELSE IF ClosesArray(lines[1]) THEN ElementsOf(lines[1], "", << >>, << >>)
    ELSE ElementsOf(lines[1], "", << >>, << >>) \o ArrayElements(Tail(lines))

\* the lines of the array of a text: the rest of its first line and the
\* lines before the scalar assignment that ends the text
ArrayLines(text) ==
    << SubSeq(text[1], 4, Len(text[1])) >> \o SubSeq(text, 2, Len(text) - 1)

\* the array is closed within its own lines and holds no `$`
IsClosedPlainArray(text) ==
    /\ \E i \in 1..Len(ArrayLines(text)) : ClosesArray(ArrayLines(text)[i])
    /\ \A i \in 1..Len(ArrayLines(text)) : find(ArrayLines(text)[i], << "$" >>) = 0

\* C20: parsing an array assignment, written on one line or over several,
\* leaves in the typed field exactly the list of its elements in written
\* order: tokens and quoted spans without their quotes, nothing for a
\* comment, for the parentheses and for an empty quoted string.
C20_ArrayYieldsItsElements ==
    output.op = "parse" /\ IsClosedPlainArray(input)
        => output.pkg.optdepends = ArrayElements(ArrayLines(input))

(***************************************************************************)
(* Texts with functions: a header line, then up to MaxBodyLines lines of   *)
(* commands, braces and further headers.                                   *)
(***************************************************************************)
\* most lines that follow the first header of a text
MaxBodyLines == 4

FunctionHeads ==
    { << "build", "(", ")", " ", "{" >>,                            \* build() {
      << "build", "(", ")", " ", "{", " ", "make", ";", " ", "}" >>, \* build() { make; }
      << "package_foo", " ", "(", " ", ")", "{" >> }                \* package_foo ( ){
BodyLines ==
    { << "make" >>,                              \* make
      << " ", "if", " ", "{" >>,                 \*  if {
      << "}" >>,                                 \* }
      << " ", "}" >>,                            \*  }
      << "done", " ", "}" >>,                    \* done }
      << "package", "(", ")", " ", "{" >> }      \* package() {
FunctionTexts ==
    { << head >> \o body : head \in FunctionHeads,
                           body \in UNION { [ 1..n -> BodyLines ] : n \in 0..MaxBodyLines } }

FunctionsInit ==
    /\ RepoInit
    /\ keyAvailable
    /\ query = NoQuery
    /\ found = Failed("")
    /\ DriverIdle
    /\ input \in FunctionTexts
    /\ output = ParseOutput("pending", Pkgbuild_default)
    /\ content = input
    /\ in_array = FALSE
    /\ current_var = ""
    /\ current_array = << >>
    /\ raw_variables = NoVariables

SpecFunctions == FunctionsInit /\ [][ParserNext]_vars

(***************************************************************************)
(* The functions of a text, read off its braces.                           *)
(***************************************************************************)
\* the braces opened and not closed on the lines from .. to
RECURSIVE Balance(_, _, _)
Balance(lines, from, to) ==
    IF to < from THEN 0
    ELSE Balance(lines, from, to - 1)
           + occurrences(lines[to], "{") - occurrences(lines[to], "}")

\* the line on which the function whose header is line `from` ends, 0 when
\* its braces never balance
EndOf(lines, from) ==
    LET balanced == { k \in from..Len(lines) : Balance(lines, from, k) = 0 }
    IN  IF balanced = {} THEN 0 ELSE CHOOSE k \in balanced : \A j \in balanced : k <= j

\* the lines between the header and the end, less a last line that is a
\* lone `}`
BodyOf(lines, from) ==
    LET to == EndOf(lines, from)
        last == trim(lines[to])
        between == SubSeq(lines, from + 1, IF last = << "}" >> THEN to - 1 ELSE to)
    IN  join(between, << "\n" >>)

\* the headers met when the scan goes on after the end of each function;
\* a function that never ends is the last one met
RECURSIVE HeadersFrom(_, _)
HeadersFrom(lines, i) ==
    IF i > Len(lines) THEN << >>
    ELSE IF ~is_function_header(trim(lines[i])) THEN HeadersFrom(lines, i + 1)
    ELSE IF EndOf(lines, i) = 0 THEN << i >>
    ELSE << i >> \o HeadersFrom(lines, EndOf(lines, i) + 1)

\* the body the recipe holds for a function name
StoredBody(name) ==
    IF name = "build" THEN output.pkg.build_func
    ELSE IF name = "package" THEN output.pkg.package_func
    ELSE get(output.pkg.package_funcs, "foo")

\* the last header of the name among the headers met, 0 if there is none
LastHeader(lines, name) ==
    LET met == HeadersFrom(lines, 1)
        named == { i \in 1..Len(met) : trim(lines[met[i]])[1] = name }
    IN  IF named = {} THEN 0 ELSE met[CHOOSE i \in named : \A j \in named : j <= i]

MaxAssignments == 3

PkgnameScalar == << "pkgname", "=", "foo" >>                                \* pkgname=foo
PkgnameSplit == << "pkgname", "=", "(", "'", "a", "'", " ", "'", "b", "'", ")" >> \* pkgname=('a' 'b')
PkgnameSingle == << "pkgname", "=", "(", "'", "a", "'", ")" >>              \* pkgname=('a')
PkgbaseLine == << "pkgbase", "=", "base" >>                                 \* pkgbase=base
LoneQuote == << "pkgver", "=", "\"" >>                                      \* pkgver="
BuildHeader == << "build", "(", ")", " ", "{" >>                            \* build() {
AssignmentLines ==
    { PkgnameScalar, PkgnameSplit, PkgnameSingle, PkgbaseLine,
      << "pkgver", "=", "1.0" >>,                \* pkgver=1.0
      << "pkgver", "=", "\"", "1.0", "\"" >>,    \* pkgver="1.0"
      << "pkgver", "=", "'", "1.0" >>,           \* pkgver='1.0
      << "pkgver", "=" >>,                       \* pkgver=
      LoneQuote,
      << "pkgrel", "=", "1" >>,                  \* pkgrel=1
      BuildHeader }
AssignmentTexts == UNION { [ 1..n -> AssignmentLines ] : n \in 0..MaxAssignments }

ScalarsInit ==
    /\ RepoInit
    /\ keyAvailable
    /\ query = NoQuery
    /\ found = Failed("")
    /\ DriverIdle
    /\ input \in AssignmentTexts
    /\ output = ParseOutput("pending", Pkgbuild_default)
    /\ content = input
    /\ in_array = FALSE
    /\ current_var = ""
    /\ current_array = << >>
    /\ raw_variables = NoVariables

SpecScalars == ScalarsInit /\ [][ParserNext]_vars

\* the lines of the text that are the given line
LinesThatAre(line) == { i \in 1..Len(input) : input[i] = line }

\* C22: parse returns a recipe for every text and never aborts: a malformed
\* scalar assignment (no value, a lone quote character, an unmatched quote)
\* is skipped or stored, and a function whose braces never balance gets the
\* lines up to the end of the text as its body.
C22_ParseNeverAborts ==
    /\ output.op # "panic"
    /\ output.op = "parse" /\ LinesThatAre(BuildHeader) # {}
           => LET header == CHOOSE i \in LinesThatAre(BuildHeader) :
                                \A j \in LinesThatAre(BuildHeader) : i <= j
              IN  output.pkg.build_func
                      = Some(join(SubSeq(input, header + 1, Len(input)), << "\n" >>))

\* C23: a recipe that parse returns has a non-empty name, a non-empty
\* version and a non-empty release, whatever the text assigns.
C23_NameVersionReleaseNonEmpty ==
    output.op = "parse"
        => /\ output.pkg.pkgname # << >>
           /\ version(output.pkg) # << >>
           /\ release(output.pkg) # << >>

\* the elements of the last pkgname assignment of the text, as written
PkgnameLines == LinesThatAre(PkgnameScalar) \cup LinesThatAre(PkgnameSplit)
                    \cup LinesThatAre(PkgnameSingle)
WrittenPkgname ==
    LET last == input[CHOOSE i \in PkgnameLines : \A j \in PkgnameLines : j <= i]
    IN  IF PkgnameLines = {} THEN << >>
        ELSE IF last = PkgnameScalar THEN << << "foo" >> >>
        ELSE IF last = PkgnameSplit THEN << << "a" >>, << "b" >> >>
        ELSE << << "a" >> >>

FailuresNext ==
    \/ Command({ "core" }) /\ UNCHANGED << query, found, convVars >>
    \/ \E bytes \in AllowedBytes(ArchiveA) :
         AddFile(ArchiveA, bytes) /\ UNCHANGED << query, found, convVars >>
    \/ RemovePackagesDir /\ UNCHANGED << query, found, convVars >>
    \/ \E g \in GroupsFiles : WriteGroups(g) /\ UNCHANGED << query, found, convVars >>
    \/ \E d \in DeltaFiles : WriteDeltas(d) /\ UNCHANGED << query, found, convVars >>
    \/ SetKey /\ UNCHANGED << query, found, convVars >>

SpecFailures == Init /\ [][FailuresNext]_vars

(***************************************************************************)
(* Properties of refresh: groups, dependency lists, failures.              *)
(***************************************************************************)
\* the names of the packages of an index
IndexedNames(index) == { index.packages[i].name : i \in 1..Len(index.packages) }

\* the groups of the index are the tables of groups.toml, each once and
\* with its description, members, optional members and essential flag
CarriesGroupsOf(index, groups_file) ==
    /\ Len(index.groups) = Cardinality(groups_file.content)
    /\ \A def \in groups_file.content :
         \E i \in 1..Len(index.groups) :
            /\ index.groups[i].name = def.name
            /\ index.groups[i].description = def.description
            /\ index.groups[i].packages = def.packages
            /\ index.groups[i].optional = def.optional
            /\ index.groups[i].essential = def.essential

\* refresh fails in this step, before it has written anything
RefreshFails == pc = "idle" /\ pc' = "idle" /\ result'.cmd = "refresh"

\* C27: a refresh that finds a well-formed groups.toml does not fail on its
\* account and writes an index with one group for each table of the file,
\* carrying its description, packages, optional list and essential flag,
\* whether or not the members of the group are packages of the index.
C27_GroupsAttachedDespiteMissingMembers ==
    [][ /\ RefreshWrites /\ groupsToml.exists
            => CarriesGroupsOf(packagesJson'.index, groupsToml)
        /\ RefreshFails /\ groupsToml.exists /\ groupsToml.wellFormed
            => result'.status # "MalformedGroups"
      ]_vars

\* a refresh has completed and its index holds a group with a required
\* member that is no package of the index
C27_Witness ==
    /\ pc = "idle"
    /\ result.cmd = "refresh"
    /\ result.status = "Ok"
    /\ packagesJson.index.packages # << >>
    /\ \E i \in 1..Len(packagesJson.index.groups) :
         \E k \in 1..Len(packagesJson.index.groups[i].packages) :
            packagesJson.index.groups[i].packages[k] \notin IndexedNames(packagesJson.index)

\* the dependency names of the archives, in ascending order
NamesInOrder == << "m", "x", "y" >>
\* the names of S in ascending order, each once
SortedKeys(S) == SelectSeq(NamesInOrder, LAMBDA n : n \in S)

\* C28: every entry that refresh writes has as depends and build_depends
\* the keys of the two dependency mappings of its archive's info, each
\* once and in ascending order.
C28_DependsAreSortedKeys ==
    [][ RefreshWrites =>
          \A i \in 1..Len(packagesJson'.index.packages) :
             LET e == packagesJson'.index.packages[i]
                 info == read_info(e.sha256)
             IN  /\ e.depends = SortedKeys(info.depends)
                 /\ e.build_depends = SortedKeys(info.build_depends)
      ]_vars

\* C30: a refresh that fails before its write step (no signing key, no
\* repo.toml, no packages/, an archive that cannot be read, a malformed
\* groups.toml or deltas.json) leaves packages.json and packages.json.sig
\* as they were, and no step of refresh changes repo.toml.
C30_FailedRefreshWritesNothing ==
    [][ /\ RefreshFails
            => /\ result'.status \in { "MissingKey", "NotARepository", "NoPackagesDir",
                                       "ArchiveError", "MalformedGroups", "MalformedDeltas" }
               /\ packagesJson' = packagesJson
               /\ packagesJsonSig' = packagesJsonSig
        /\ result'.cmd = "refresh" => repoToml' = repoToml
      ]_vars

\* a refresh has failed on a malformed groups.toml; the index of an earlier
\* refresh and its signature are still there
C30_Witness ==
    /\ pc = "idle"
    /\ result = Status("refresh", "MalformedGroups")
    /\ packagesJson.index.packages # << >>
    /\ SigCovers
====
